---- MODULE Spec2Model ----
(***************************************************************************)
(* Payroll computation, validation gate and regulatory source monitor of   *)
(* skills/recibos-empleadas-domesticas (scripts/payroll_lib.py and         *)
(* scripts/run_monthly_payroll.py).                                        *)
(*                                                                         *)
(* Text is a sequence of one-character strings.  A Python float is a       *)
(* record: a finite value is an exact fraction n/d in lowest terms, and    *)
(* the special values nan, inf and -inf are kept, because float() accepts  *)
(* their spellings and they take part in sums and comparisons.             *)
(***************************************************************************)
EXTENDS Integers, Sequences, FiniteSets, TLC

(***************************************************************************)
(* Text helpers (str.strip, str.lower, str.replace)                        *)
(***************************************************************************)
\* s.strip()
Strip(s) ==
    LET kept == {i \in 1..Len(s) : s[i] # " "}
    IN  IF kept = {} THEN <<>>
        ELSE SubSeq(s, CHOOSE i \in kept : \A j \in kept : i <= j,
                       CHOOSE i \in kept : \A j \in kept : i >= j)

\* the lower-case letter of each upper-case letter
LowerOf ==
    "A" :> "a" @@ "B" :> "b" @@ "C" :> "c" @@ "D" :> "d" @@ "E" :> "e" @@ "F" :> "f" @@
    "G" :> "g" @@ "H" :> "h" @@ "I" :> "i" @@ "J" :> "j" @@ "K" :> "k" @@ "L" :> "l" @@
    "M" :> "m" @@ "N" :> "n" @@ "O" :> "o" @@ "P" :> "p" @@ "Q" :> "q" @@ "R" :> "r" @@
    "S" :> "s" @@ "T" :> "t" @@ "U" :> "u" @@ "V" :> "v" @@ "W" :> "w" @@ "X" :> "x" @@
    "Y" :> "y" @@ "Z" :> "z"

\* s.lower()
Lower(s) == [i \in 1..Len(s) |-> IF s[i] \in DOMAIN LowerOf THEN LowerOf[s[i]] ELSE s[i]]

StartsWith(s, pat) == Len(s) >= Len(pat) /\ SubSeq(s, 1, Len(pat)) = pat

\* s.replace(pat, ""): leftmost, non-overlapping occurrences are dropped
RECURSIVE RemoveSub(_, _)
RemoveSub(s, pat) ==
    IF s = <<>> THEN <<>>
    ELSE IF StartsWith(s, pat) THEN RemoveSub(SubSeq(s, Len(pat) + 1, Len(s)), pat)
    ELSE <<Head(s)>> \o RemoveSub(Tail(s), pat)

\* s.replace(a, b) for single characters
ReplaceChar(s, a, b) == [i \in 1..Len(s) |-> IF s[i] = a THEN b ELSE s[i]]

Contains(s, pat) ==
    \E i \in 1..(Len(s) - Len(pat) + 1) : SubSeq(s, i, i + Len(pat) - 1) = pat

Digits == {"0", "1", "2", "3", "4", "5", "6", "7", "8", "9"}

DigitVal(c) ==
    CASE c = "0" -> 0 [] c = "1" -> 1 [] c = "2" -> 2 [] c = "3" -> 3
      [] c = "4" -> 4 [] c = "5" -> 5 [] c = "6" -> 6 [] c = "7" -> 7
      [] c = "8" -> 8 [] c = "9" -> 9

DigitChar(n) ==
    CASE n = 0 -> "0" [] n = 1 -> "1" [] n = 2 -> "2" [] n = 3 -> "3"
      [] n = 4 -> "4" [] n = 5 -> "5" [] n = 6 -> "6" [] n = 7 -> "7"
      [] n = 8 -> "8" [] n = 9 -> "9"

AllDigits(s) == \A i \in 1..Len(s) : s[i] \in Digits

RECURSIVE NatOf(_)
NatOf(s) == IF s = <<>> THEN 0 ELSE NatOf(SubSeq(s, 1, Len(s) - 1)) * 10 + DigitVal(s[Len(s)])

RECURSIVE NatStr(_)
NatStr(n) == IF n < 10 THEN <<DigitChar(n)>> ELSE NatStr(n \div 10) \o <<DigitChar(n % 10)>>

RECURSIVE Pow10(_)
Pow10(k) == IF k = 0 THEN 1 ELSE 10 * Pow10(k - 1)

(***************************************************************************)
(* Python floats                                                           *)
(***************************************************************************)
RECURSIVE Gcd(_, _)
Gcd(a, b) == IF b = 0 THEN a ELSE Gcd(b, a % b)

NaN == [k |-> "nan", n |-> 0, d |-> 1]
PosInf == [k |-> "inf", n |-> 1, d |-> 1]
NegInf == [k |-> "inf", n |-> -1, d |-> 1]

\* the finite value n/d (d > 0), in lowest terms
Fin(n, d) ==
    LET g == Gcd(IF n < 0 THEN -n ELSE n, d)
    IN  IF n = 0 THEN [k |-> "fin", n |-> 0, d |-> 1]
        ELSE [k |-> "fin", n |-> n \div g, d |-> d \div g]

Zero == Fin(0, 1)

IsFin(a) == a.k = "fin"

FNeg(a) == [a EXCEPT !.n = -a.n]

\* a + b
FAdd(a, b) ==
    IF a.k = "nan" \/ b.k = "nan" THEN NaN
    ELSE IF a.k = "inf" /\ b.k = "inf" THEN (IF a.n = b.n THEN a ELSE NaN)
    ELSE IF a.k = "inf" THEN a
    ELSE IF b.k = "inf" THEN b
    ELSE Fin(a.n * b.d + b.n * a.d, a.d * b.d)

\* a * b
FMul(a, b) ==
    IF a.k = "nan" \/ b.k = "nan" THEN NaN
    ELSE IF a.k = "inf" \/ b.k = "inf" THEN
        (IF a.n = 0 \/ b.n = 0 THEN NaN
         ELSE [k |-> "inf", n |-> IF (a.n > 0) = (b.n > 0) THEN 1 ELSE -1, d |-> 1])
    ELSE Fin(a.n * b.n, a.d * b.d)

\* a / m for a positive integer m
FDivInt(a, m) == IF IsFin(a) THEN Fin(a.n, a.d * m) ELSE a

\* a > 0 and a <= 0 (every comparison with nan is false)
FGt0(a) == a.k # "nan" /\ a.n > 0
FLe0(a) == a.k # "nan" /\ a.n <= 0

\* a == b on floats (nan equals nothing, itself included)
FEq(a, b) == a.k # "nan" /\ b.k # "nan" /\ a = b

\* round(a, 2): nearest multiple of 0.01, ties to even; nan and inf are kept
Round2(a) ==
    IF ~IsFin(a) THEN a
    ELSE LET num == a.n * 100
             q == num \div a.d
             r == num % a.d
             c == IF 2 * r < a.d THEN q
                  ELSE IF 2 * r > a.d THEN q + 1
                  ELSE IF q % 2 = 0 THEN q ELSE q + 1
         IN  Fin(c, 100)

RECURSIVE FSum(_)
FSum(vals) == IF vals = <<>> THEN Zero ELSE FAdd(FSum(SubSeq(vals, 1, Len(vals) - 1)), vals[Len(vals)])

\* the digits before and after the decimal point, as a value
FloatOfDigits(ip, fp) == Fin(NatOf(ip) * Pow10(Len(fp)) + NatOf(fp), Pow10(Len(fp)))

\* an unsigned literal whose first "." is at position p
FloatOfParts(s, neg, p) ==
    IF s = <<"n", "a", "n">> THEN [ok |-> TRUE, v |-> NaN]
    ELSE IF s = <<"i", "n", "f">> THEN [ok |-> TRUE, v |-> IF neg THEN NegInf ELSE PosInf]
    ELSE IF /\ AllDigits(SubSeq(s, 1, p - 1))
            /\ AllDigits(SubSeq(s, p + 1, Len(s)))
            /\ Len(s) > (IF p > Len(s) THEN 0 ELSE 1)
        THEN [ok |-> TRUE,
              v |-> IF neg
                    THEN FNeg(FloatOfDigits(SubSeq(s, 1, p - 1), SubSeq(s, p + 1, Len(s))))
                    ELSE FloatOfDigits(SubSeq(s, 1, p - 1), SubSeq(s, p + 1, Len(s)))]
    ELSE [ok |-> FALSE, v |-> Zero]

\* s is the literal without its sign; the third argument is the position of
\* its first ".", Len(s) + 1 when there is none
FloatOfSigned(s, neg) ==
    FloatOfParts(s, neg,
                 IF \E i \in 1..Len(s) : s[i] = "."
                 THEN CHOOSE i \in 1..Len(s) : s[i] = "." /\ \A j \in 1..(i - 1) : s[j] # "."
                 ELSE Len(s) + 1)

FloatOfLower(s0) ==
    FloatOfSigned(IF s0 # <<>> /\ Head(s0) \in {"-", "+"} THEN Tail(s0) ELSE s0,
                  s0 # <<>> /\ Head(s0) = "-")

\* float(s): [ok |-> FALSE] stands for ValueError.  The literals are an
\* optional sign and digits with at most one ".", "nan" and "inf" in any
\* case; exponents and digit-group underscores are not written in the inputs.
FloatOf(text) == FloatOfLower(Lower(Strip(text)))

\* what is left of an amount once "AR$", "$" and blanks are dropped, the
\* thousands separators removed and the decimal comma turned into a point
ArsClean(s1) ==
    ReplaceChar(
        SelectSeq(
            SelectSeq(RemoveSub(RemoveSub(s1, <<"A", "R", "$">>), <<"$">>), LAMBDA c : c # " "),
            LAMBDA c : c # "."),
        ",", ".")

\* round(float(s), 2), and 0.0 on ValueError
RoundOrZero(f) == IF f.ok THEN Round2(f.v) ELSE Zero

ParseArsClean(s3) == IF s3 \in {<<>>, <<"-">>, <<"-", "-">>} THEN Zero ELSE RoundOrZero(FloatOf(s3))

\* parse_ars
parse_ars(value) ==
    IF Strip(value) = <<>> THEN Zero ELSE ParseArsClean(ArsClean(Strip(value)))

\* float(s), and 0.0 on ValueError
ValueOrZero(f) == IF f.ok THEN f.v ELSE Zero

\* what is left of a number once the blanks and the thousands separators are
\* dropped and the decimal comma is turned into a point
NumberClean(s1) == ReplaceChar(SelectSeq(s1, LAMBDA c : c # " " /\ c # "."), ",", ".")

\* parse_number
parse_number(value) ==
    IF Strip(value) = <<>> THEN Zero ELSE ValueOrZero(FloatOf(NumberClean(Strip(value))))

\* the while loop of format_ars: groups of three digits from the right
RECURSIVE GroupThousands(_)
GroupThousands(whole) ==
    IF Len(whole) <= 3 THEN whole
    ELSE GroupThousands(SubSeq(whole, 1, Len(whole) - 3)) \o <<".">>
             \o SubSeq(whole, Len(whole) - 2, Len(whole))

\* abs(round(value, 2)) in cents, for a finite value
AbsCents(value) ==
    (100 * (IF Round2(value).n < 0 THEN -Round2(value).n ELSE Round2(value).n))
        \div Round2(value).d

\* a rendering that writes the cents without a leading zero
FormatArsUnpadded(value) ==
    IF ~IsFin(value) THEN [ok |-> FALSE, text |-> <<>>]
    ELSE [ok |-> TRUE,
          text |-> (IF value.n < 0 THEN <<"-", " ">> ELSE <<>>) \o <<"A", "R", "$">>
                       \o GroupThousands(NatStr(AbsCents(value) \div 100)) \o <<",">>
                       \o NatStr(AbsCents(value) % 100)]

\* format_ars: [ok |-> FALSE] stands for the ValueError of line 111, where
\* f"{v:.2f}" is "nan" or "inf" and has no "."
format_ars(value) ==
    IF ~IsFin(value) THEN [ok |-> FALSE, text |-> <<>>]
    ELSE [ok |-> TRUE,
          text |-> (IF value.n < 0 THEN <<"-", " ">> ELSE <<>>) \o <<"A", "R", "$">>
                       \o GroupThousands(NatStr(AbsCents(value) \div 100)) \o <<",">>
                       \o NatStr((AbsCents(value) % 100) \div 10)
                       \o NatStr(AbsCents(value) % 10)]

(***************************************************************************)
(* Periods, dates and labels                                               *)
(***************************************************************************)
SPANISH_MONTHS ==
    << <<"e", "n", "e">>, <<"f", "e", "b">>, <<"m", "a", "r">>, <<"a", "b", "r">>,
       <<"m", "a", "y">>, <<"j", "u", "n">>, <<"j", "u", "l">>, <<"a", "g", "o">>,
       <<"s", "e", "p", "t">>, <<"o", "c", "t">>, <<"n", "o", "v">>, <<"d", "i", "c">> >>

\* s.split(sep) for a one-character separator
RECURSIVE Split(_, _)
Split(s, sep) ==
    LET hits == {i \in 1..Len(s) : s[i] = sep}
        i == CHOOSE j \in hits : \A h \in hits : j <= h
    IN  IF hits = {} THEN <<s>>
        ELSE <<SubSeq(s, 1, i - 1)>> \o Split(SubSeq(s, i + 1, Len(s)), sep)

\* int(s): [ok |-> FALSE] stands for ValueError
IntOf(text) ==
    LET s0 == Strip(text)
        neg == s0 # <<>> /\ Head(s0) = "-"
        s == IF s0 # <<>> /\ Head(s0) \in {"-", "+"} THEN Tail(s0) ELSE s0
    IN  IF s # <<>> /\ AllDigits(s)
        THEN [ok |-> TRUE, v |-> IF neg THEN -NatOf(s) ELSE NatOf(s)]
        ELSE [ok |-> FALSE, v |-> 0]

DaysInMonth(y, m) ==
    IF m = 2 THEN (IF (y % 4 = 0 /\ y % 100 # 0) \/ y % 400 = 0 THEN 29 ELSE 28)
    ELSE IF m \in {4, 6, 9, 11} THEN 30 ELSE 31

NoDate == [year |-> 0, month |-> 0, day |-> 0]

\* datetime.date(y, m, d): [ok |-> FALSE] stands for ValueError
MakeDate(y, m, d) ==
    IF y >= 1 /\ y <= 9999 /\ m >= 1 /\ m <= 12 /\ d >= 1 /\ d <= DaysInMonth(y, m)
    THEN [ok |-> TRUE, v |-> [year |-> y, month |-> m, day |-> d]]
    ELSE [ok |-> FALSE, v |-> NoDate]

\* year, month = period.split("-"); dt.date(int(year), int(month), 1)
PeriodOfSplit(parts) ==
    IF Len(parts) = 2 /\ IntOf(parts[1]).ok /\ IntOf(parts[2]).ok
    THEN MakeDate(IntOf(parts[1]).v, IntOf(parts[2]).v, 1)
    ELSE [ok |-> FALSE, v |-> NoDate]

\* parse_period; `today` is dt.date.today(); [ok |-> FALSE] stands for PayrollError
parse_period(period, today) ==
    IF period # <<>> THEN PeriodOfSplit(Split(period, "-"))
    ELSE [ok |-> TRUE, v |-> [year |-> today.year, month |-> today.month, day |-> 1]]

FieldVal(s) == NatOf(SelectSeq(s, LAMBDA c : c # " "))

\* the date whose day, month and year fields are d, m and y: %d and %m are
\* one or two digits (%d also a space-padded digit), %Y is four digits
DateOfFields(d, m, y) ==
    IF /\ \/ Len(d) \in {1, 2} /\ AllDigits(d)
          \/ Len(d) = 2 /\ d[1] = " " /\ d[2] \in Digits \ {"0"}
       /\ Len(m) \in {1, 2} /\ AllDigits(m)
       /\ Len(y) = 4 /\ AllDigits(y)
    THEN MakeDate(FieldVal(y), FieldVal(m), FieldVal(d))
    ELSE [ok |-> FALSE, v |-> NoDate]

\* the formats "%d/%m/%Y" and "%Y-%m-%d", tried in this order
DateOfSplits(a, b, dmy) ==
    IF dmy.ok THEN dmy
    ELSE IF Len(b) = 3 THEN DateOfFields(b[3], b[2], b[1])
    ELSE [ok |-> FALSE, v |-> NoDate]

ParseDateStripped(v, a) ==
    IF v = <<>> THEN [ok |-> FALSE, v |-> NoDate]
    ELSE DateOfSplits(a, Split(v, "-"),
                      IF Len(a) = 3 THEN DateOfFields(a[1], a[2], a[3])
                      ELSE [ok |-> FALSE, v |-> NoDate])

\* parse_date_local: [ok |-> FALSE] stands for None
parse_date_local(value) == ParseDateStripped(Strip(value), Split(Strip(value), "/"))

\* period_label
period_label(period_start) ==
    SPANISH_MONTHS[period_start.month] \o <<" ">> \o NatStr(period_start.year)

\* n as text, zero-padded to at least w digits
RECURSIVE ZeroPad(_, _)
ZeroPad(s, w) == IF Len(s) >= w THEN s ELSE ZeroPad(<<"0">> \o s, w)

\* period_start.strftime("%Y-%m")
StrfYm(period_start) ==
    ZeroPad(NatStr(period_start.year), 4) \o <<"-">> \o ZeroPad(NatStr(period_start.month), 2)

(***************************************************************************)
(* Rows are functions from column names to text; a column may be missing.  *)
(* Column names are written without their accents ("Periodo" for           *)
(* "Per\u00edodo", "Dias habiles" for "D\u00edas h\u00e1biles").                 *)
(***************************************************************************)
\* row.get(key, "")
Get(row, key) == IF key \in DOMAIN row THEN row[key] ELSE <<>>

\* a lookup that falls back on the first row of the table
FirstRowWhenMissing(reference_rows, period_start) ==
    IF reference_rows = <<>> THEN [ok |-> FALSE, row |-> <<>>]
    ELSE [ok |-> TRUE, row |-> reference_rows[1]]

\* find_reference_row: [ok |-> FALSE] stands for PayrollError
find_reference_row(reference_rows, period_start) ==
    LET label == period_label(period_start)
        hits == {i \in 1..Len(reference_rows) :
                    Lower(Strip(Get(reference_rows[i], "Periodo"))) = label}
        first == CHOOSE i \in hits : \A h \in hits : i <= h
    IN  IF hits = {} THEN [ok |-> FALSE, row |-> <<>>]
        ELSE [ok |-> TRUE, row |-> reference_rows[first]]

\* get_float
RECURSIVE get_float(_, _)
get_float(row, candidates) ==
    IF candidates = <<>> THEN Zero
    ELSE LET key == Head(candidates)
             v == Get(row, key)
         IN  IF key \in DOMAIN row /\ Strip(v) # <<>> THEN
                 IF Contains(v, <<"A", "R", "$">>) \/ Contains(v, <<"$">>)
                 THEN parse_ars(v)
                 ELSE parse_number(v)
             ELSE get_float(row, Tail(candidates))

\* a turn of the loop that compares the month and not the year
CollectRowAnyYear(items, row, event_date, period_start) ==
    IF ~event_date.ok \/ event_date.v.month # period_start.month THEN items
    ELSE Append(items, [date |-> event_date.v,
                        type |-> Get(row, "Tipo de evento"),
                        description |-> Get(row, "Descripcion"),
                        amount |-> Round2(parse_ars(Get(row, "Monto adicional/descuento")))])

\* one turn of the loop of collect_events
CollectRow(items, row, event_date, period_start) ==
    IF ~event_date.ok THEN items
    ELSE IF event_date.v.year # period_start.year \/ event_date.v.month # period_start.month
        THEN items
    ELSE Append(items, [date |-> event_date.v,
                        type |-> Get(row, "Tipo de evento"),
                        description |-> Get(row, "Descripcion"),
                        amount |-> Round2(parse_ars(Get(row, "Monto adicional/descuento")))])

\* collect_events
RECURSIVE collect_events(_, _)
collect_events(events_rows, period_start) ==
    IF events_rows = <<>> THEN <<>>
    ELSE CollectRow(collect_events(SubSeq(events_rows, 1, Len(events_rows) - 1), period_start),
                    events_rows[Len(events_rows)],
                    parse_date_local(Get(events_rows[Len(events_rows)], "Fecha")),
                    period_start)

\* lines 245-249: the base when no positive fixed base is given
BasicoOf(basico, horas_dia, basico_hora, dias_habiles, dias_semana, semanas_mes) ==
    IF FLe0(basico) /\ FGt0(horas_dia) /\ FGt0(basico_hora) THEN
        IF FGt0(dias_habiles) THEN FMul(FMul(dias_habiles, horas_dia), basico_hora)
        ELSE IF FGt0(dias_semana) /\ FGt0(semanas_mes)
            THEN FMul(FMul(FMul(dias_semana, semanas_mes), horas_dia), basico_hora)
        ELSE basico
    ELSE basico

\* line 252
AntiguedadOf(basico, antig_pct) ==
    IF FGt0(antig_pct) THEN FMul(basico, FDivInt(antig_pct, 100)) ELSE Zero

\* lines 254-261
ViaticosOf(viaticos, viaticos_dia, dias_habiles, dias_semana, semanas_mes) ==
    IF FLe0(viaticos) /\ FGt0(viaticos_dia) THEN
        IF FGt0(dias_habiles) THEN FMul(dias_habiles, viaticos_dia)
        ELSE IF FGt0(dias_semana) /\ FGt0(semanas_mes)
            THEN FMul(FMul(dias_semana, semanas_mes), viaticos_dia)
        ELSE viaticos
    ELSE viaticos

\* lines 245-269; basico and viaticos are the columns as read
BaseOfColumns(basico, horas_dia, basico_hora, dias_habiles, dias_semana, semanas_mes, antig_pct, viaticos, viaticos_dia) ==
    [basico |->
        Round2(BasicoOf(basico, horas_dia, basico_hora, dias_habiles, dias_semana, semanas_mes)),
     antiguedad |->
        Round2(AntiguedadOf(
            BasicoOf(basico, horas_dia, basico_hora, dias_habiles, dias_semana, semanas_mes),
            antig_pct)),
     viaticos |->
        Round2(ViaticosOf(viaticos, viaticos_dia, dias_habiles, dias_semana, semanas_mes)),
     dias_habiles |-> Round2(IF FGt0(dias_habiles) THEN dias_habiles
                             ELSE FMul(dias_semana, semanas_mes)),
     horas_dia |-> Round2(horas_dia)]

\* _compute_base
compute_base(reference_row) ==
    BaseOfColumns(get_float(reference_row, <<"Salario basico">>),
                  get_float(reference_row, <<"Horas/dia", "Horas diarias">>),
                  get_float(reference_row, <<"Basico/hora", "Basico hora">>),
                  get_float(reference_row, <<"Dias habiles">>),
                  get_float(reference_row, <<"Dias por semana">>),
                  get_float(reference_row, <<"Semanas al mes">>),
                  get_float(reference_row, <<"Antiguedad">>),
                  get_float(reference_row, <<"Viaticos totales">>),
                  get_float(reference_row, <<"Viaticos/dia", "Viaticos por dia">>))

\* the synthetic item, for whatever subtotal
AguinaldoAuto(subtotal) ==
    [type |-> <<"A", "g", "u", "i", "n", "a", "l", "d", "o", " ", "a", "u", "t", "o">>,
     amount |-> Round2(FMul(subtotal, Fin(1, 2)))]

\* periodic items that are emitted in June only
PeriodicItemsJuneOnly(period_start, subtotal, event_items) ==
    IF period_start.month = 6
          /\ ~\E i \in 1..Len(event_items) :
                 Contains(Lower(event_items[i].type),
                          <<"a", "g", "u", "i", "n", "a", "l", "d", "o">>)
    THEN <<AguinaldoAuto(subtotal)>>
    ELSE <<>>

\* periodic items that do not look at the events
PeriodicItemsIgnoringEvents(period_start, subtotal, event_items) ==
    IF period_start.month \in {6, 12} THEN <<AguinaldoAuto(subtotal)>> ELSE <<>>

\* compute_periodic_items
compute_periodic_items(period_start, subtotal, event_items) ==
    LET has_aguinaldo ==
            \E i \in 1..Len(event_items) : Contains(Lower(event_items[i].type),
                                             <<"a", "g", "u", "i", "n", "a", "l", "d", "o">>)
    IN  IF period_start.month \in {6, 12} /\ ~has_aguinaldo
        THEN <<AguinaldoAuto(subtotal)>>
        ELSE <<>>

Amounts(items) == [i \in 1..Len(items) |-> items[i].amount]

\* SPREADSHEET_CONFIG[person_key]["name"]
PersonKeys == <<"mariza", "irma">>

PersonName(person_key) == IF person_key = "mariza" THEN "Mariza" ELSE "Irma"

NoBreakdown ==
    [person_key |-> "", person_name |-> "", period |-> <<>>,
     basico |-> Zero, antiguedad |-> Zero, viaticos |-> Zero, eventos |-> Zero,
     subtotal |-> Zero, otros |-> Zero, total |-> Zero,
     dias_habiles |-> Zero, horas_dia |-> Zero, horas_trabajadas |-> Zero,
     event_items |-> <<>>, autopilot_items |-> <<>>]

\* lines 296-315
Breakdown(person_key, period_start, base, subtotal, event_items, event_sum, periodic_items, otros) ==
    [person_key |-> person_key,
     person_name |-> PersonName(person_key),
     period |-> StrfYm(period_start),
     basico |-> base.basico,
     antiguedad |-> base.antiguedad,
     viaticos |-> base.viaticos,
     eventos |-> event_sum,
     subtotal |-> subtotal,
     otros |-> otros,
     total |-> Round2(FAdd(FAdd(subtotal, event_sum), otros)),
     dias_habiles |-> base.dias_habiles,
     horas_dia |-> base.horas_dia,
     horas_trabajadas |-> Round2(FMul(base.dias_habiles, base.horas_dia)),
     event_items |-> event_items,
     autopilot_items |-> periodic_items]

\* lines 293-297
WithPeriodic(person_key, period_start, base, subtotal, event_items, periodic_items) ==
    Breakdown(person_key, period_start, base, subtotal, event_items,
              Round2(FSum(Amounts(event_items))), periodic_items,
              Round2(FSum(Amounts(periodic_items))))

\* lines 291-293
WithEvents(person_key, period_start, base, subtotal, event_items) ==
    WithPeriodic(person_key, period_start, base, subtotal, event_items,
                 compute_periodic_items(period_start, subtotal, event_items))

\* a computation that looks for the entitlement in every row of the log
WithBaseWholeLog(person_key, period_start, person_data, base) ==
    WithPeriodic(person_key, period_start, base,
                 Round2(FAdd(FAdd(base.basico, base.antiguedad), base.viaticos)),
                 collect_events(person_data.eventos, period_start),
                 compute_periodic_items(
                     period_start,
                     Round2(FAdd(FAdd(base.basico, base.antiguedad), base.viaticos)),
                     [i \in 1..Len(person_data.eventos) |->
                         [type |-> Get(person_data.eventos[i], "Tipo de evento")]]))

\* lines 288-291
WithBase(person_key, period_start, person_data, base) ==
    WithEvents(person_key, period_start, base,
               Round2(FAdd(FAdd(base.basico, base.antiguedad), base.viaticos)),
               collect_events(person_data.eventos, period_start))

\* compute_payroll_for_person: [ok |-> FALSE] stands for PayrollError
compute_payroll_for_person(person_key, period_start, person_data) ==
    IF ~find_reference_row(person_data.referencia, period_start).ok
    THEN [ok |-> FALSE, b |-> NoBreakdown]
    ELSE [ok |-> TRUE,
          b |-> WithBase(person_key, period_start, person_data,
                         compute_base(find_reference_row(person_data.referencia,
                                                         period_start).row))]

(***************************************************************************)
(* Regulatory source monitor                                               *)
(***************************************************************************)
\* https://www.arca.gob.ar/casasparticulares/categorias-y-remuneraciones/
\* https://www.arca.gob.ar/casasparticulares/ayuda/empleador/vacaciones.asp
\* https://www.arca.gob.ar/casasparticulares/ayuda/empleador/aguinaldo.asp
\* https://www.boletinoficial.gob.ar/
LEGAL_SOURCES ==
    << <<"h", "t", "t", "p", "s", ":", "/", "/", "w", "w", "w", ".", "a", "r", "c", "a",
         ".", "g", "o", "b", ".", "a", "r", "/", "c", "a", "s", "a", "s", "p", "a", "r",
         "t", "i", "c", "u", "l", "a", "r", "e", "s", "/", "c", "a", "t", "e", "g", "o",
         "r", "i", "a", "s", "-", "y", "-", "r", "e", "m", "u", "n", "e", "r", "a", "c",
         "i", "o", "n", "e", "s", "/">>,
       <<"h", "t", "t", "p", "s", ":", "/", "/", "w", "w", "w", ".", "a", "r", "c", "a",
         ".", "g", "o", "b", ".", "a", "r", "/", "c", "a", "s", "a", "s", "p", "a", "r",
         "t", "i", "c", "u", "l", "a", "r", "e", "s", "/", "a", "y", "u", "d", "a", "/",
         "e", "m", "p", "l", "e", "a", "d", "o", "r", "/", "v", "a", "c", "a", "c", "i",
         "o", "n", "e", "s", ".", "a", "s", "p">>,
       <<"h", "t", "t", "p", "s", ":", "/", "/", "w", "w", "w", ".", "a", "r", "c", "a",
         ".", "g", "o", "b", ".", "a", "r", "/", "c", "a", "s", "a", "s", "p", "a", "r",
         "t", "i", "c", "u", "l", "a", "r", "e", "s", "/", "a", "y", "u", "d", "a", "/",
         "e", "m", "p", "l", "e", "a", "d", "o", "r", "/", "a", "g", "u", "i", "n", "a",
         "l", "d", "o", ".", "a", "s", "p">>,
       <<"h", "t", "t", "p", "s", ":", "/", "/", "w", "w", "w", ".", "b", "o", "l", "e",
         "t", "i", "n", "o", "f", "i", "c", "i", "a", "l", ".", "g", "o", "b", ".", "a",
         "r", "/">> >>

\* "No se pudo consultar la fuente en esta corrida."
Placeholder ==
    <<"N", "o", " ", "s", "e", " ", "p", "u", "d", "o", " ", "c", "o", "n", "s", "u",
      "l", "t", "a", "r", " ", "l", "a", " ", "f", "u", "e", "n", "t", "e", " ", "e",
      "n", " ", "e", "s", "t", "a", " ", "c", "o", "r", "r", "i", "d", "a", ".">>

ReadBytes == 4096

SnippetChars == 350

Take(s, n) == SubSeq(s, 1, IF Len(s) < n THEN Len(s) ELSE n)

\* re.sub(r"\s+", " ", s): every run of blanks becomes one blank
CollapseSpaces(s) ==
    LET at == [i \in 1..Len(s) |-> <<i, s[i]>>]
        kept == SelectSeq(at, LAMBDA p : ~(p[2] = " " /\ p[1] > 1 /\ s[p[1] - 1] = " "))
    IN  [i \in 1..Len(kept) |-> kept[i][2]]

\* the snippet kept of a page that was read
SnippetOf(content) == Strip(CollapseSpaces(Take(Take(content, ReadBytes), SnippetChars)))

\* One fetch ends in one of three ways: the page is read ("ok"), urlopen or
\* read raises URLError, TimeoutError or ValueError ("caught"), or it raises
\* anything else, such as http.client.RemoteDisconnected, IncompleteRead or
\* ConnectionResetError while the response is read ("uncaught").
FetchSnippet(outcome) == IF outcome.kind = "ok" THEN SnippetOf(outcome.content) ELSE Placeholder

\* one turn of the loop over LEGAL_SOURCES for source k
FetchOne(before, k, kind, snippet) ==
    IF before.raised \/ kind = "uncaught"
    THEN [raised |-> TRUE, snippets |-> <<>>, hashed |-> <<>>]
    ELSE [raised |-> FALSE,
          snippets |-> Append(before.snippets, [source |-> LEGAL_SOURCES[k], snippet |-> snippet]),
          hashed |-> before.hashed \o LEGAL_SOURCES[k] \o <<":", ":">> \o snippet]

\* the loop over LEGAL_SOURCES: the snippets and the text fed to the hasher
RECURSIVE FetchAll(_)
FetchAll(outcomes) ==
    IF outcomes = <<>> THEN [raised |-> FALSE, snippets |-> <<>>, hashed |-> <<>>]
    ELSE FetchOne(FetchAll(SubSeq(outcomes, 1, Len(outcomes) - 1)), Len(outcomes),
                  outcomes[Len(outcomes)].kind, FetchSnippet(outcomes[Len(outcomes)]))

\* hashlib.sha256(...).hexdigest(): the digest is taken to be collision-free,
\* so it is named by the byte stream it was computed from
hexdigest(hashed) == [sha256 |-> hashed]

\* a stored "hash" that is missing, null or empty: every falsy value
NoHash == [sha256 |-> <<>>]

\* rules_hash.json: absent, or a JSON object and its "hash" value, or a text
\* that json.loads(...).get cannot read (no JSON, or JSON that is no object)
NoStateFile == [exists |-> FALSE, object |-> FALSE, hash |-> NoHash]

StateFile(h) == [exists |-> TRUE, object |-> TRUE, hash |-> h]

CorruptStateFile == [exists |-> TRUE, object |-> FALSE, hash |-> NoHash]

NoRules == [status |-> "None", keys |-> {}, snippets |-> <<>>]

\* the status reported when old_hash is missing or differs from new_hash
ChangedStatus == "textual_summary"

\* a comparison that takes a missing checkpoint for an unchanged one
SameHashOrMissing(old_hash, new_hash) == old_hash = NoHash \/ old_hash = new_hash

\* if old_hash and old_hash == new_hash
SameHash(old_hash, new_hash) == old_hash # NoHash /\ old_hash = new_hash

\* a write that only creates the file and never replaces it
CreatedStateFile(state_file, new_hash) ==
    IF state_file.exists THEN state_file ELSE StateFile(new_hash)

\* a write that is put off until the run has printed its response
DeferredStateFile(state_file, new_hash) == state_file

\* the state file after line 430
WrittenStateFile(state_file, new_hash) == StateFile(new_hash)

\* lines 425-441
RulesOfHashes(state_file, snippets, old_hash, new_hash) ==
    [raised |-> FALSE,
     state_file |-> WrittenStateFile(state_file, new_hash),
     result |-> IF SameHash(old_hash, new_hash)
                THEN [status |-> "no_change", keys |-> {"status", "sources"}, snippets |-> <<>>]
                ELSE [status |-> ChangedStatus,
                      keys |-> {"status", "summary", "sources", "snippets"},
                      snippets |-> snippets],
     snippets |-> snippets,
     new_hash |-> new_hash]

\* a reader that takes a checkpoint it cannot decode for a missing one
RulesOfFetchedLenient(state_file, fetched) ==
    IF fetched.raised
    THEN [raised |-> TRUE, state_file |-> state_file, result |-> NoRules,
          snippets |-> <<>>, new_hash |-> NoHash]
    ELSE RulesOfHashes(state_file, fetched.snippets,
                       IF state_file.exists THEN state_file.hash ELSE NoHash,
                       hexdigest(fetched.hashed))

\* lines 413-428: an exception of the loop, or of json.loads(...).get at line
\* 428, leaves the function before the write of line 430
RulesOfFetched(state_file, fetched) ==
    IF fetched.raised \/ (state_file.exists /\ ~state_file.object)
    THEN [raised |-> TRUE, state_file |-> state_file, result |-> NoRules,
          snippets |-> <<>>, new_hash |-> NoHash]
    ELSE RulesOfHashes(state_file, fetched.snippets,
                       IF state_file.exists THEN state_file.hash ELSE NoHash,
                       hexdigest(fetched.hashed))

\* check_rules_updates: [raised |-> TRUE] stands for an exception that leaves
\* the function; state_file is the file's content after the call
check_rules_updates(state_file, outcomes) == RulesOfFetched(state_file, FetchAll(outcomes))

(***************************************************************************)
(* Date gate and validation gate                                           *)
(***************************************************************************)
\* a gate that closes on the 1st of the current month instead
TodayGateOnFirst(period_start, ignore_day_gate, today) ==
    IF ignore_day_gate THEN TRUE
    ELSE IF today.day = 1 /\ today.year = period_start.year /\ today.month = period_start.month
        THEN FALSE
    ELSE TRUE

\* today_gate(...)["should_run"]
today_gate(period_start, ignore_day_gate, today) ==
    IF ignore_day_gate THEN TRUE
    ELSE IF today.day # 1 /\ today.year = period_start.year /\ today.month = period_start.month
        THEN FALSE
    ELSE TRUE

\* rules_check.get("status")
StatusOf(rules_check) == rules_check.status

\* a gate that is closed by "textual_summary" alone
RulesStateDenyList(rules_check) ==
    IF StatusOf(rules_check) = "textual_summary" THEN "REVISAR" ELSE "OK"

\* line 382
RulesState(rules_check) == IF StatusOf(rules_check) = "no_change" THEN "OK" ELSE "REVISAR"

\* placeholders that ask for confirmation in mode "real" alone
PolicyCheckRealOnly(mode) == IF mode = "real" THEN "REVISAR" ELSE "OK"

\* lines 389-390
PolicyCheck(mode) == IF mode = "dry-run" THEN "OK" ELSE "REVISAR"

CuadreCheck(b) ==
    IF FEq(Round2(FAdd(FAdd(b.subtotal, b.eventos), b.otros)), Round2(b.total))
    THEN "OK" ELSE "REVISAR"

\* the four checks of one worker
ChecksOf(b, mode) ==
    [insumos |-> IF FGt0(b.basico) THEN "OK" ELSE "REVISAR",
     cuadre |-> CuadreCheck(b),
     coincidencia_arca_vs_pagos |-> PolicyCheck(mode),
     evidencia |-> PolicyCheck(mode)]

HasRevisar(checks) == \E c \in DOMAIN checks : checks[c] = "REVISAR"

WorkerSummary(checks) == IF ~HasRevisar(checks) THEN "OK" ELSE "REVISAR"

\* short: "normativa" first, then one entry per worker, later entries winning
RECURSIVE ShortOf(_, _, _)
ShortOf(results, rules_state, mode) ==
    IF results = <<>> THEN ("normativa" :> rules_state)
    ELSE LET b == results[Len(results)]
         IN  (b.person_name :> WorkerSummary(ChecksOf(b, mode)))
                @@ ShortOf(SubSeq(results, 1, Len(results) - 1), rules_state, mode)

\* detail: one entry per worker key, later entries winning
RECURSIVE DetailOf(_, _)
DetailOf(results, mode) ==
    IF results = <<>> THEN <<>>
    ELSE LET b == results[Len(results)]
         IN  (b.person_key :> ChecksOf(b, mode))
                @@ DetailOf(SubSeq(results, 1, Len(results) - 1), mode)

\* an aggregation that looks at the last worker only
GlobalStateLastWorker(results, rules_state, mode) ==
    IF rules_state # "OK" THEN "REVISAR"
    ELSE IF results # <<>> /\ HasRevisar(ChecksOf(results[Len(results)], mode)) THEN "REVISAR"
    ELSE "OK"

\* global_state, lines 380, 392-393 and 397-398
GlobalState(results, rules_state, mode) ==
    IF rules_state # "OK" THEN "REVISAR"
    ELSE IF \E i \in 1..Len(results) : HasRevisar(ChecksOf(results[i], mode)) THEN "REVISAR"
    ELSE "OK"

\* validation_payload
validation_payload(results, rules_check, mode) ==
    [global_status |-> GlobalState(results, RulesState(rules_check), mode),
     validation_short |-> ShortOf(results, RulesState(rules_check), mode),
     validation_detail |-> DetailOf(results, mode)]

(***************************************************************************)
(* Inputs: reference tables, event logs, arguments                         *)
(***************************************************************************)
LabelFeb == <<"f", "e", "b", " ", "2", "0", "2", "6">>

LabelJun == <<"J", "u", "n", " ", "2", "0", "2", "6", " ">>

LabelEne == <<"e", "n", "e", " ", "2", "0", "2", "6">>

LabelDic == <<" ", "D", "I", "C", " ", "2", "0", "2", "6">>

RowFixed(label) ==
    ("Periodo" :> label @@
     "Salario basico" :> <<"A", "R", "$", "1", "0", "0", ",", "0", "0">> @@
     "Antiguedad" :> <<"1">> @@
     "Viaticos totales" :> <<"A", "R", "$", "2", "0", ",", "5", "0">>)

RowRate(label) ==
    ("Periodo" :> label @@
     "Horas/dia" :> <<"4">> @@
     "Basico/hora" :> <<"2", ",", "5">> @@
     "Dias habiles" :> <<"2", "0">> @@
     "Antiguedad" :> <<"1", ",", "5">> @@
     "Viaticos/dia" :> <<"1", ",", "5">>)

RowWeekly(label) ==
    ("Periodo" :> label @@
     "Horas diarias" :> <<"4">> @@
     "Basico hora" :> <<"A", "R", "$", "2", ",", "5", "0">> @@
     "Dias por semana" :> <<"3">> @@
     "Semanas al mes" :> <<"4">> @@
     "Viaticos por dia" :> <<"2">>)

RowFixedAndRate(label) ==
    ("Periodo" :> label @@
     "Salario basico" :> <<"A", "R", "$", "1", "0", "0", ",", "0", "0">> @@
     "Horas/dia" :> <<"4">> @@
     "Basico/hora" :> <<"2", ",", "5">> @@
     "Dias habiles" :> <<"2", "0">> @@
     "Dias por semana" :> <<"3">> @@
     "Semanas al mes" :> <<"4">>)

RowThirds(label) ==
    ("Periodo" :> label @@
     "Horas/dia" :> <<"1", ",", "3">> @@
     "Basico/hora" :> <<"0", ",", "3", "3">> @@
     "Dias habiles" :> <<"1">> @@
     "Antiguedad" :> <<"1", "2", "0">>)

RowEmpty(label) ==
    ("Periodo" :> label)

RowNan(label) ==
    ("Periodo" :> label @@
     "Salario basico" :> <<"n", "a", "n">> @@
     "Horas/dia" :> <<"4">> @@
     "Basico/hora" :> <<"2", ",", "5">> @@
     "Dias habiles" :> <<"2", "0">>)

\* a fixed base below zero and nothing else
RowNegative(label) ==
    ("Periodo" :> label @@
     "Salario basico" :> <<"-", "5">>)

\* one table per row shape, with a row for each of the two periods computed;
\* a table without the period; a table where two rows carry the same label
ReferenceTables ==
    {<<RowFixed(LabelFeb), RowFixed(LabelJun), RowFixed(LabelDic)>>,
     <<RowRate(LabelFeb), RowRate(LabelJun)>>,
     <<RowWeekly(LabelFeb), RowWeekly(LabelJun)>>,
     <<RowFixedAndRate(LabelFeb), RowFixedAndRate(LabelJun)>>,
     <<RowThirds(LabelFeb), RowThirds(LabelJun)>>,
     <<RowEmpty(LabelFeb), RowEmpty(LabelJun)>>,
     <<RowNan(LabelFeb), RowNan(LabelJun)>>,
     <<RowNegative(LabelFeb), RowNegative(LabelJun)>>,
     <<RowFixed(LabelEne)>>,
     <<RowEmpty(LabelFeb), RowFixed(LabelFeb), RowEmpty(LabelJun), RowFixed(LabelJun)>>}

EvBonoFeb ==
    ("Fecha" :> <<"2", "0", "2", "6", "-", "0", "2", "-", "1", "0">> @@
     "Tipo de evento" :> <<"B", "o", "n", "o">> @@
     "Descripcion" :> <<>> @@
     "Monto adicional/descuento" :> <<"A", "R", "$", "1", "2", ",", "0", "0">>)

EvDescuentoFeb ==
    ("Fecha" :> <<"3", "/", "2", "/", "2", "0", "2", "6">> @@
     "Tipo de evento" :> <<"A", "u", "s", "e", "n", "c", "i", "a">> @@
     "Descripcion" :> <<>> @@
     "Monto adicional/descuento" :> <<"-", " ", "A", "R", "$", "5", ",", "5", "0">>)

EvBonoJun ==
    ("Fecha" :> <<"1", "5", "/", "0", "6", "/", "2", "0", "2", "6">> @@
     "Tipo de evento" :> <<"B", "o", "n", "o">> @@
     "Descripcion" :> <<>> @@
     "Monto adicional/descuento" :> <<"A", "R", "$", "7", ",", "2", "5">>)

EvAguinaldoJun ==
    ("Fecha" :> <<"2", "0", "2", "6", "-", "0", "6", "-", "3", "0">> @@
     "Tipo de evento" :> <<"A", "G", "U", "I", "N", "A", "L", "D", "O", " ", "1", "e", "r", " ", "s", "e", "m", "e", "s", "t", "r", "e">> @@
     "Descripcion" :> <<>> @@
     "Monto adicional/descuento" :> <<"A", "R", "$", "6", "0", ",", "0", "0">>)

EvAguinaldoOtherYear ==
    ("Fecha" :> <<"2", "0", "2", "5", "-", "0", "6", "-", "3", "0">> @@
     "Tipo de evento" :> <<"a", "g", "u", "i", "n", "a", "l", "d", "o">> @@
     "Descripcion" :> <<>> @@
     "Monto adicional/descuento" :> <<"A", "R", "$", "6", "0", ",", "0", "0">>)

EvAguinaldoDic ==
    ("Fecha" :> <<"1", "5", "/", "1", "2", "/", "2", "0", "2", "6">> @@
     "Tipo de evento" :> <<"S", "A", "C", " ", "(", "A", "g", "u", "i", "n", "a", "l", "d", "o", ")">> @@
     "Descripcion" :> <<>> @@
     "Monto adicional/descuento" :> <<"A", "R", "$", "6", "1", ",", "0", "0">>)

EvBadDate ==
    ("Fecha" :> <<"3", "0", "/", "0", "2", "/", "2", "0", "2", "6">> @@
     "Tipo de evento" :> <<"B", "o", "n", "o">> @@
     "Descripcion" :> <<>> @@
     "Monto adicional/descuento" :> <<"A", "R", "$", "9", ",", "0", "0">>)

EvNanFeb ==
    ("Fecha" :> <<"2", "0", "2", "6", "-", "0", "2", "-", "1", "1">> @@
     "Tipo de evento" :> <<"A", "j", "u", "s", "t", "e">> @@
     "Descripcion" :> <<>> @@
     "Monto adicional/descuento" :> <<"n", "a", "n">>)

MaxEvents == 2

\* every event log of at most MaxEvents rows
EventLogs ==
    UNION {[1..n -> {EvBonoFeb, EvDescuentoFeb, EvNanFeb, EvBonoJun, EvAguinaldoJun,
                     EvAguinaldoOtherYear, EvAguinaldoDic, EvBadDate}] : n \in 0..MaxEvents}

PersonData(referencia, eventos) == [referencia |-> referencia, eventos |-> eventos]

\* --period: absent, three valid periods, a month that does not exist
PeriodArgs ==
    {<<>>,
     <<"2", "0", "2", "6", "-", "0", "2">>,
     <<"2", "0", "2", "6", "-", "6">>,
     <<"2", "0", "2", "6", "-", "1", "2">>,
     <<"2", "0", "2", "6", "-", "1", "3">>}

\* the data the monthly workflow finds for a worker: a fixed base, no base,
\* a nan adjustment, no row for the period
WorkflowData ==
    {PersonData(<<RowFixed(LabelFeb), RowFixed(LabelJun)>>, <<EvBonoFeb>>),
     PersonData(<<RowEmpty(LabelFeb), RowEmpty(LabelJun)>>, <<>>),
     PersonData(<<RowFixed(LabelFeb), RowFixed(LabelJun)>>, <<EvNanFeb, EvBonoJun>>),
     PersonData(<<RowFixed(LabelEne)>>, <<EvBonoFeb>>)}

\* pages: for the first two sources a plain page and one that quotes the
\* next source's address followed by "::"
Pages ==
    [a |-> <<"a">>,
     a_quoting |-> <<"a">> \o LEGAL_SOURCES[2] \o <<":", ":">>,
     z |-> <<"z">>,
     quoted_z |-> LEGAL_SOURCES[2] \o <<":", ":", "z">>,
     c |-> <<"c", " ", " ", "c">>,
     d |-> <<"d">>]

\* how a fetch ends: the page is read, a caught exception, any other exception
Ok(content) == [kind |-> "ok", content |-> content]
Caught == [kind |-> "caught", content |-> <<>>]
Uncaught == [kind |-> "uncaught", content |-> <<>>]

\* what the fetch of each source can end in
FetchOutcomes ==
    {<<o1, o2, o3, Ok(Pages.d)>> :
        o1 \in {Ok(Pages.a), Ok(Pages.a_quoting), Uncaught},
        o2 \in {Ok(Pages.z), Ok(Pages.quoted_z), Caught, Uncaught},
        o3 \in {Ok(Pages.c), Caught}}

\* the state directory as the first run finds it: no file, an object without
\* a usable hash, a file that cannot be decoded, an object written by an
\* earlier run
InitialStateFiles ==
    {NoStateFile, StateFile(NoHash), CorruptStateFile,
     StateFile(hexdigest(FetchAll(<<Ok(Pages.a), Ok(Pages.z), Ok(Pages.c), Ok(Pages.d)>>).hashed))}

\* the workers a validation input file can list: each worker of the roster
\* at most once, with amounts that reconcile or do not
WorkerDicts(person_key) ==
    {[NoBreakdown EXCEPT !.person_key = person_key, !.person_name = PersonName(person_key),
                         !.basico = basico, !.subtotal = basico,
                         !.eventos = eventos, !.total = total] :
        basico \in {Zero, Fin(100, 1)}, eventos \in {Zero, Fin(12, 1)},
        total \in {Fin(100, 1), Fin(112, 1), NaN}}

WorkerLists ==
    {<<>>} \cup {<<m>> : m \in WorkerDicts("mariza")} \cup {<<i>> : i \in WorkerDicts("irma")}
        \cup {<<m, i>> : m \in WorkerDicts("mariza"), i \in WorkerDicts("irma")}

\* flags and webhook variables of one workflow run
FinishEnvs ==
    {[no_write_sheets |-> FALSE, no_upload_drive |-> FALSE, simulate_arca |-> TRUE,
      simulate_whatsapp |-> TRUE, webhooks |-> FALSE],
     [no_write_sheets |-> FALSE, no_upload_drive |-> FALSE, simulate_arca |-> FALSE,
      simulate_whatsapp |-> FALSE, webhooks |-> TRUE],
     [no_write_sheets |-> TRUE, no_upload_drive |-> FALSE, simulate_arca |-> FALSE,
      simulate_whatsapp |-> FALSE, webhooks |-> FALSE]}

(***************************************************************************)
(* State                                                                   *)
(***************************************************************************)
VARIABLES
    pc,              \* "idle", then the position in main(): "rules", "loop",
                     \* "finish", and "exited" once the process has ended
    prog,            \* the script that ran last
    mode,            \* args.mode
    period_start,    \* parse_period(args.period)
    rules,           \* the result of check_rules_updates in this run
    results,         \* the breakdowns computed in this run
    person_data,     \* the data loaded for the worker computed last
    actions_taken,
    actions_blocked,
    validation,      \* the result of validation_payload in this run
    output,          \* what the run printed: "gate", "response", "result",
                     \* "error" (the structured error) or "traceback"
    exit_code,
    state_file,      \* <state-dir>/rules_hash.json
    last_call,       \* history: the latest call of check_rules_updates
    vs_prev,         \* history: its snippets against those of the call before
    day_gate,        \* args.ignore_day_gate and dt.date.today(), from the start of
                     \* main() until the step after the date gate
    change_fate,     \* history: what became of the change detected last: "none"
                     \* (printed, or no change yet), "pending" (detected in the
                     \* run in progress), "aborted" (that run ended with the
                     \* payroll error), "dropped" (it ended with a traceback)
    ars_pc,          \* amounts: "unused", "drawn", "formatted", "parsed", "raised"
    ars_x,           \* the amount handed to format_ars
    ars_text,        \* what format_ars returned
    ars_back,        \* what parse_ars made of it
    fx_pc,           \* fetch_market_prices: "unused", "start", "dolarhoy",
                     \* "bluelytics", "done"
    fx_override,     \* DOLARHOY_HTML_PATH: "unset", "empty" or "path"
    fx_calls,        \* history: the network sources contacted, in order
    fx_seen,         \* history: how the read of each source ended
    fx_error,        \* dolarhoy_error
    fx_result,       \* what fetch_market_prices returned or raised
    row_pc,          \* ledger rows: "unused", "drawn", "computed", "built", "raised"
    row_in,          \* the worker, the period and the data handed to
                     \* compute_payroll_for_person
    row_b,           \* the breakdown it returned
    row_out,         \* the row build_pagos_row made of it
    close_pc,        \* run_monthly_close.main(): "unused", "start", "amounts",
                     \* "sheets", "ynab", "finish", "exited"
    close_in,        \* the arguments, the configuration and the environment of the run
    close_fx,        \* fx_rate
    close_k,         \* the position of the person in progress in config["people"]
    close_person,    \* history: the fallback amount of that person and what
                     \* read_last_month_amount ended in
    close_amounts,   \* person_amounts: what _resolve_amounts ended in
    close_taken,     \* actions_taken
    close_blocked,   \* actions_blocked
    close_writes,    \* history: the requests sent to the sheets and to YNAB, in order
    close_artifact,  \* the artifact file of the run: "none", "skipped" or "response"
    close_exit       \* how the process ended

payroll_vars ==
    <<pc, prog, mode, period_start, rules, results, person_data, actions_taken,
      actions_blocked, validation, output, exit_code, state_file, last_call, vs_prev,
      change_fate, day_gate>>

ars_vars == <<ars_pc, ars_x, ars_text, ars_back>>

fx_vars == <<fx_pc, fx_override, fx_calls, fx_seen, fx_error, fx_result>>

row_vars == <<row_pc, row_in, row_b, row_out>>

close_vars ==
    <<close_pc, close_in, close_fx, close_k, close_person, close_amounts, close_taken,
      close_blocked, close_writes, close_artifact, close_exit>>

vars == <<payroll_vars, ars_vars, fx_vars, row_vars, close_vars>>

NoValidation == [global_status |-> "", validation_short |-> <<>>, validation_detail |-> <<>>]

NoPersonData == PersonData(<<>>, <<>>)

NoCall ==
    [made |-> FALSE, raised |-> FALSE, snippets |-> <<>>, status |-> "None", keys |-> {},
     new_hash |-> NoHash, old_file |-> NoStateFile]

NoDayGate == [ignore_day_gate |-> FALSE, today |-> NoDate]

InitPayroll ==
    /\ pc = "idle"
    /\ prog = ""
    /\ mode = ""
    /\ period_start = NoDate
    /\ rules = NoRules
    /\ results = <<>>
    /\ person_data = NoPersonData
    /\ actions_taken = <<>>
    /\ actions_blocked = <<>>
    /\ validation = NoValidation
    /\ output = ""
    /\ exit_code = -1
    /\ state_file \in InitialStateFiles
    /\ last_call = NoCall
    /\ vs_prev = "none"
    /\ change_fate = "none"
    /\ day_gate = NoDayGate

\* no amount is being formatted
ArsUnused ==
    /\ ars_pc = "unused"
    /\ ars_x = Zero
    /\ ars_text = <<>>
    /\ ars_back = Zero

NoFxResult ==
    [kind |-> "none", source |-> "", message |-> "",
     prices |-> [blue_buy |-> Zero, blue_sell |-> Zero, official_buy |-> Zero,
                 official_sell |-> Zero]]

\* fetch_market_prices is not being called
FxUnused ==
    /\ fx_pc = "unused"
    /\ fx_override = "unset"
    /\ fx_calls = <<>>
    /\ fx_seen = <<>>
    /\ fx_error = ""
    /\ fx_result = NoFxResult

\* no ledger row is being built
RowUnused ==
    /\ row_pc = "unused"
    /\ row_in = [person_key |-> "", period_start |-> NoDate, data |-> NoPersonData]
    /\ row_b = NoBreakdown
    /\ row_out = <<>>

NoCloseInput == [people |-> 0]

NoLast == [kind |-> "none", v |-> Zero]

NoPerson == [fallback |-> Zero, last |-> NoLast]

NoAmountsOf(kind, message) ==
    [kind |-> kind, message |-> message, amount_ars |-> Zero, amount_usd |-> Zero,
     changed |-> FALSE, historical_amount_ars |-> NoLast]

NoCloseAmounts == NoAmountsOf("none", "")

NoCloseExit == [kind |-> "none", code |-> -1, message |-> ""]

\* run_monthly_close is not running
CloseUnused ==
    /\ close_pc = "unused"
    /\ close_in = NoCloseInput
    /\ close_fx = Zero
    /\ close_k = 0
    /\ close_person = NoPerson
    /\ close_amounts = NoCloseAmounts
    /\ close_taken = <<>>
    /\ close_blocked = <<>>
    /\ close_writes = <<>>
    /\ close_artifact = "none"
    /\ close_exit = NoCloseExit

Init == InitPayroll /\ ArsUnused /\ FxUnused /\ RowUnused /\ CloseUnused

\* history of a call of check_rules_updates that ended as r
RecordCall(r) ==
    /\ last_call' =
          [made |-> TRUE, raised |-> r.raised, snippets |-> r.snippets,
           status |-> r.result.status, keys |-> r.result.keys, new_hash |-> r.new_hash,
           old_file |-> state_file]
    /\ vs_prev' =
          IF r.raised \/ ~last_call.made \/ last_call.raised THEN "none"
          ELSE IF last_call.snippets = r.snippets THEN "same"
          ELSE "differs"

(***************************************************************************)
(* run_monthly_payroll.py                                                  *)
(***************************************************************************)
\* main(), lines 44-65: the period and the date gate
MainStart ==
    /\ pc = "idle"
    /\ UNCHANGED <<ars_vars, fx_vars, row_vars, close_vars>>
    /\ prog' = "run_monthly_payroll"
    /\ \E period \in PeriodArgs, ignore_day_gate \in BOOLEAN,
          today \in {[year |-> 2026, month |-> 2, day |-> 1],
                     [year |-> 2026, month |-> 2, day |-> 15]},
          m \in {"dry-run", "real"} :
        \E ps \in {parse_period(period, today)} :
            /\ mode' = m
            /\ day_gate' = [ignore_day_gate |-> ignore_day_gate, today |-> today]
            /\ period_start' = ps.v
            /\ rules' = NoRules
            /\ results' = <<>>
            /\ person_data' = NoPersonData
            /\ validation' = NoValidation
            /\ IF ~ps.ok THEN
                   /\ pc' = "exited"
                   /\ output' = "error"
                   /\ exit_code' = 2
                   /\ actions_taken' = <<>>
                   /\ actions_blocked' = <<>>
               ELSE IF ~today_gate(ps.v, ignore_day_gate, today) THEN
                   /\ pc' = "exited"
                   /\ output' = "gate"
                   /\ exit_code' = 0
                   /\ actions_taken' = <<>>
                   /\ actions_blocked' = <<"date_gate">>
               ELSE
                   /\ pc' = "rules"
                   /\ output' = ""
                   /\ exit_code' = -1
                   /\ actions_taken' = <<"period">>
                   /\ actions_blocked' = <<>>
            /\ UNCHANGED <<state_file, last_call, vs_prev, change_fate>>

\* a workflow that waits for the status "changed"
BlockedByRulesChanged(blocked, rules_check) ==
    IF StatusOf(rules_check) = "changed"
    THEN Append(blocked, "await_user_approval_for_rules")
    ELSE blocked

\* main(), lines 68-69
BlockedByRules(blocked, rules_check) ==
    IF StatusOf(rules_check) = "textual_summary"
    THEN Append(blocked, "await_user_approval_for_rules")
    ELSE blocked

\* main(), lines 67-69: the regulatory monitor
MainRules ==
    /\ pc = "rules"
    /\ day_gate' = NoDayGate
    /\ UNCHANGED <<ars_vars, fx_vars, row_vars, close_vars>>
    /\ \E outcomes \in FetchOutcomes :
        \E r \in {check_rules_updates(state_file, outcomes)} :
            /\ state_file' = r.state_file
            /\ RecordCall(r)
            /\ rules' = r.result
            /\ change_fate' = IF StatusOf(r.result) = ChangedStatus THEN "pending"
                              ELSE change_fate
            /\ IF r.raised THEN
                   /\ pc' = "exited"
                   /\ output' = "traceback"
                   /\ exit_code' = 1
                   /\ UNCHANGED actions_blocked
               ELSE
                   /\ pc' = "loop"
                   /\ actions_blocked' = BlockedByRules(actions_blocked, r.result)
                   /\ UNCHANGED <<output, exit_code>>
            /\ UNCHANGED <<prog, mode, period_start, results, person_data, actions_taken,
                           validation>>

\* main(), lines 72-79: one turn of the loop over the workers; a PayrollError
\* leaves main() and is reported by lines 136-138
MainPerson ==
    /\ pc = "loop"
    /\ UNCHANGED <<day_gate, ars_vars, fx_vars, row_vars, close_vars>>
    /\ \/ \E data \in WorkflowData :
          \E r \in {compute_payroll_for_person(PersonKeys[Len(results) + 1], period_start, data)} :
              /\ person_data' = data
              /\ IF r.ok THEN
                     /\ results' = Append(results, r.b)
                     /\ pc' = IF Len(results) + 1 = Len(PersonKeys) THEN "finish" ELSE "loop"
                     /\ UNCHANGED <<output, exit_code, change_fate>>
                 ELSE
                     /\ pc' = "exited"
                     /\ output' = "error"
                     /\ exit_code' = 2
                     /\ change_fate' = IF change_fate = "pending" THEN "aborted"
                                       ELSE change_fate
                     /\ UNCHANGED results
       \/ \* load_local_json or load_person_data raises: not a PayrollError
          /\ pc' = "exited"
          /\ output' = "traceback"
          /\ exit_code' = 1
          /\ change_fate' = IF change_fate = "pending" THEN "dropped" ELSE change_fate
          /\ UNCHANGED <<results, person_data>>
    /\ UNCHANGED <<prog, mode, period_start, rules, actions_taken, actions_blocked,
                   validation, state_file, last_call, vs_prev>>

\* the actions recorded by lines 83-109
FinishTaken(env, m) ==
    <<IF m = "dry-run" \/ env.no_write_sheets THEN "sheets_write_skipped"
      ELSE IF env.webhooks THEN "sheets_write_payload_ready" ELSE "",
      IF m = "dry-run" \/ env.no_upload_drive THEN "drive_upload_skipped"
      ELSE IF env.webhooks THEN "drive_upload_payload_ready" ELSE "",
      IF env.simulate_arca \/ m = "dry-run" THEN "arca_simulated_until_preconfirm"
      ELSE "arca_real_mode_requested",
      IF env.simulate_whatsapp \/ m = "dry-run" THEN "whatsapp_simulated_not_sent"
      ELSE IF env.webhooks THEN "whatsapp_payload_ready" ELSE "">>

FinishBlocked(env, m) ==
    <<IF m = "dry-run" \/ env.no_write_sheets \/ env.webhooks THEN ""
      ELSE "sheets_write_missing_webhook",
      IF m = "dry-run" \/ env.no_upload_drive \/ env.webhooks THEN ""
      ELSE "drive_upload_missing_webhook",
      IF env.simulate_whatsapp \/ m = "dry-run" \/ env.webhooks THEN ""
      ELSE "whatsapp_missing_webhook">>

\* format_ars raises ValueError when f"{v:.2f}" has no "." (nan, inf, -inf)
FormatArsRaises(value) == ~IsFin(value)

\* build_pagos_row raises when one of the amounts it formats cannot be formatted
PagosRowRaises(b) ==
    IF b.person_key = "mariza"
    THEN \E v \in {b.basico, b.antiguedad, b.viaticos, b.eventos, b.subtotal, b.otros, b.total} :
            FormatArsRaises(v)
    ELSE \E v \in {b.basico, b.antiguedad, b.viaticos, b.subtotal, FAdd(b.eventos, b.otros),
                   b.total} :
            FormatArsRaises(v)

NonEmpty(names) == SelectSeq(names, LAMBDA a : a # "")

\* main(), lines 81-130: ledger rows, delivery actions, validation, response;
\* a ValueError of build_pagos_row is not caught and ends the process
MainFinish ==
    /\ pc = "finish"
    /\ UNCHANGED <<day_gate, ars_vars, fx_vars, row_vars, close_vars>>
    /\ \E env \in FinishEnvs :
        IF \E i \in 1..Len(results) : PagosRowRaises(results[i]) THEN
            /\ output' = "traceback"
            /\ exit_code' = 1
            /\ change_fate' = IF change_fate = "pending" THEN "dropped" ELSE change_fate
            /\ UNCHANGED <<actions_taken, actions_blocked, validation>>
        ELSE
            /\ actions_taken' = actions_taken \o NonEmpty(FinishTaken(env, mode))
            /\ actions_blocked' = actions_blocked \o NonEmpty(FinishBlocked(env, mode))
            /\ validation' = validation_payload(results, rules, mode)
            /\ output' = "response"
            /\ exit_code' = 0
            /\ change_fate' = IF change_fate = "pending" THEN "none" ELSE change_fate
    /\ pc' = "exited"
    /\ UNCHANGED <<prog, mode, period_start, rules, results, person_data, state_file,
                   last_call, vs_prev>>

(***************************************************************************)
(* check_rules_updates.py                                                  *)
(***************************************************************************)
RulesCli ==
    /\ pc = "idle"
    /\ UNCHANGED <<day_gate, ars_vars, fx_vars, row_vars, close_vars>>
    /\ prog' = "check_rules_updates"
    /\ \E outcomes \in FetchOutcomes :
        \E r \in {check_rules_updates(state_file, outcomes)} :
            /\ state_file' = r.state_file
            /\ RecordCall(r)
            /\ rules' = r.result
            /\ change_fate' = IF StatusOf(r.result) = ChangedStatus THEN "none"
                              ELSE change_fate
            /\ output' = IF r.raised THEN "traceback" ELSE "result"
            /\ exit_code' = IF r.raised THEN 1 ELSE 0
            /\ pc' = "exited"
            /\ mode' = ""
            /\ period_start' = NoDate
            /\ results' = <<>>
            /\ person_data' = NoPersonData
            /\ actions_taken' = <<>>
            /\ actions_blocked' = <<>>
            /\ validation' = NoValidation

\* the process has ended: what it printed has been read and nothing of it is
\* left but the state directory
ProcessExit ==
    /\ pc = "exited"
    /\ UNCHANGED <<ars_vars, fx_vars, row_vars, close_vars>>
    /\ pc' = "idle"
    /\ mode' = ""
    /\ period_start' = NoDate
    /\ rules' = NoRules
    /\ results' = <<>>
    /\ person_data' = NoPersonData
    /\ actions_taken' = <<>>
    /\ actions_blocked' = <<>>
    /\ validation' = NoValidation
    /\ output' = ""
    /\ exit_code' = -1
    /\ day_gate' = NoDayGate
    /\ UNCHANGED <<prog, state_file, last_call, vs_prev, change_fate>>

(***************************************************************************)
(* calc_payroll.py and validate_before_send.py: they keep nothing between  *)
(* runs and never touch the state directory, so one run of each, as the    *)
(* first process and without a checkpoint, is every run.                   *)
(***************************************************************************)
\* calc_payroll.main(): the period, then the input file, then the computation
CalcOfPeriod(ps, person_key, data) ==
    IF ~ps.ok THEN [ok |-> FALSE, loaded |-> FALSE, period_start |-> NoDate, b |-> NoBreakdown]
    ELSE [ok |-> compute_payroll_for_person(person_key, ps.v, data).ok,
          loaded |-> TRUE,
          period_start |-> ps.v,
          b |-> compute_payroll_for_person(person_key, ps.v, data).b]

CalcCli ==
    /\ pc = "idle"
    /\ UNCHANGED <<day_gate, ars_vars, fx_vars, row_vars, close_vars>>
    /\ prog = ""
    /\ state_file = NoStateFile
    /\ prog' = "calc_payroll"
    /\ pc' = "exited"
    /\ \/ \E period \in PeriodArgs \ {<<>>}, person_key \in {"mariza", "irma"},
             referencia \in ReferenceTables, eventos \in EventLogs :
          \E r \in {CalcOfPeriod(parse_period(period, NoDate), person_key,
                                PersonData(referencia, eventos))} :
              /\ period_start' = r.period_start
              /\ person_data' = IF r.loaded THEN PersonData(referencia, eventos)
                                ELSE NoPersonData
              /\ results' = IF r.ok THEN <<r.b>> ELSE <<>>
              /\ output' = IF r.ok THEN "result" ELSE "error"
              /\ exit_code' = IF r.ok THEN 0 ELSE 2
       \/ \* the period is valid and load_local_json raises
          \E period \in PeriodArgs \ {<<>>} :
              /\ parse_period(period, NoDate).ok
              /\ period_start' = parse_period(period, NoDate).v
              /\ output' = "traceback"
              /\ exit_code' = 1
              /\ UNCHANGED <<person_data, results>>
    /\ UNCHANGED <<mode, rules, actions_taken, actions_blocked, validation,
                   state_file, last_call, vs_prev, change_fate>>

\* validate_before_send.main()
ValidateCli ==
    /\ pc = "idle"
    /\ UNCHANGED <<day_gate, ars_vars, fx_vars, row_vars, close_vars>>
    /\ prog = ""
    /\ state_file = NoStateFile
    /\ prog' = "validate_before_send"
    /\ pc' = "exited"
    /\ \/ \E workers \in WorkerLists, m \in {"dry-run", "real", "live"},
             status \in {"no_change", "textual_summary", "changed", "None"} :
              /\ results' = workers
              /\ rules' = [NoRules EXCEPT !.status = status]
              /\ mode' = m
              /\ validation' =
                    validation_payload(workers, [NoRules EXCEPT !.status = status], m)
              /\ output' = "result"
              /\ exit_code' = 0
       \/ \* load_local_json raises
          /\ output' = "traceback"
          /\ exit_code' = 1
          /\ UNCHANGED <<results, rules, mode, validation>>
    /\ UNCHANGED <<period_start, person_data, actions_taken, actions_blocked, state_file,
                   last_call, vs_prev, change_fate>>

Next ==
    \/ MainStart
    \/ MainRules
    \/ MainPerson
    \/ MainFinish
    \/ RulesCli
    \/ CalcCli
    \/ ValidateCli
    \/ ProcessExit

Spec == Init /\ [][Next]_vars

(***************************************************************************)
(* format_ars and parse_ars on amounts                                     *)
(***************************************************************************)
\* amounts below a cent, ties on binary fractions, amounts that round up to
\* the next thousand, thousands and millions; with their negatives, zero
\* and the values that are not finite
ArsAmounts ==
    {Zero, NaN, PosInf, NegInf}
        \cup {Fin(sign * q[1], q[2]) :
                 sign \in {1, -1},
                 q \in {<<1, 1000>>, <<4, 1000>>, <<6, 1000>>, <<1, 100>>, <<14, 1000>>,
                        <<1, 8>>, <<3, 8>>, <<1, 2>>, <<999, 1000>>, <<1, 1>>, <<105, 100>>,
                        <<1234, 1000>>, <<123456, 1000>>, <<999994, 1000>>,
                        <<999996, 1000>>, <<1000, 1>>, <<8001, 8>>, <<9999996, 1000>>,
                        <<123456, 1>>, <<1000000, 1>>, <<4938269, 4>>, <<7999999, 4>>}}

InitArs ==
    /\ InitPayroll
    /\ state_file = NoStateFile
    /\ FxUnused
    /\ RowUnused
    /\ CloseUnused
    /\ ars_pc = "drawn"
    /\ ars_x \in ArsAmounts
    /\ ars_text = <<>>
    /\ ars_back = Zero

\* format_ars(x)
ArsFormat ==
    /\ ars_pc = "drawn"
    /\ ars_pc' = IF format_ars(ars_x).ok THEN "formatted" ELSE "raised"
    /\ ars_text' = format_ars(ars_x).text
    /\ UNCHANGED <<ars_x, ars_back, payroll_vars, fx_vars, row_vars, close_vars>>

\* parse_ars of the text
ArsParse ==
    /\ ars_pc = "formatted"
    /\ ars_pc' = "parsed"
    /\ ars_back' = parse_ars(ars_text)
    /\ UNCHANGED <<ars_x, ars_text, payroll_vars, fx_vars, row_vars, close_vars>>

NextArs ==
    \/ ArsFormat
    \/ ArsParse

SpecArs == InitArs /\ [][NextArs]_vars

(***************************************************************************)
(* skills/facturacion-monotributo-amigos: scripts/fetch_fx.py              *)
(*                                                                         *)
(* A page is what the patterns of parse_dolarhoy_html find in it: for each *)
(* of the two headings whether it is there, and the texts that follow a    *)
(* "$" in its section.                                                     *)
(***************************************************************************)
\* close_lib.parse_amount: [ok |-> FALSE] stands for decimal.InvalidOperation
parse_amount(text) ==
    LET normalized == SelectSeq(Strip(text), LAMBDA c : c # " ")
    IN  IF normalized = <<>> THEN [ok |-> TRUE, v |-> Zero]
        ELSE IF Contains(normalized, <<",">>) /\ Contains(normalized, <<".">>)
            THEN FloatOf(ReplaceChar(SelectSeq(normalized, LAMBDA c : c # "."), ",", "."))
        ELSE FloatOf(ReplaceChar(normalized, ",", "."))

\* an exception of the given kind; it carries no prices
FxRaise(kind, message) ==
    [kind |-> kind, message |-> message,
     prices |-> [blue_buy |-> Zero, blue_sell |-> Zero, official_buy |-> Zero,
                 official_sell |-> Zero]]

\* parse_dolarhoy_html with _extract_price_pair; the Blue section is read
\* before the Oficial section
parse_dolarhoy_html(html) ==
    IF ~html.blue.found \/ ~html.official.found
    THEN FxRaise("CloseError", "could not find Blue/Oficial sections in dolarhoy HTML")
    ELSE IF Len(html.blue.values) < 2
    THEN FxRaise("CloseError", "insufficient price points in section")
    ELSE IF ~parse_amount(html.blue.values[1]).ok \/ ~parse_amount(html.blue.values[2]).ok
    THEN FxRaise("exception", "InvalidOperation")
    ELSE IF Len(html.official.values) < 2
    THEN FxRaise("CloseError", "insufficient price points in section")
    ELSE IF \/ ~parse_amount(html.official.values[1]).ok
            \/ ~parse_amount(html.official.values[2]).ok
    THEN FxRaise("exception", "InvalidOperation")
    ELSE [kind |-> "prices", message |-> "",
          prices |-> [blue_buy |-> parse_amount(html.blue.values[1]).v,
                      blue_sell |-> parse_amount(html.blue.values[2]).v,
                      official_buy |-> parse_amount(html.official.values[1]).v,
                      official_sell |-> parse_amount(html.official.values[2]).v]]

\* float(x) of a JSON value: a number, a string, or null
FloatOfJson(x) ==
    IF x.t = "num" THEN [ok |-> TRUE, v |-> x.v]
    ELSE IF x.t = "str" THEN FloatOf(x.s)
    ELSE [ok |-> FALSE, v |-> Zero]

\* the keys a JSON object must have for lines 77-84
HasPair(data, key) ==
    /\ key \in DOMAIN data
    /\ {"value_buy", "value_sell"} \subseteq DOMAIN data[key]
    /\ FloatOfJson(data[key]["value_buy"]).ok
    /\ FloatOfJson(data[key]["value_sell"]).ok

\* fetch_bluelytics_prices, on how the request ended
fetch_bluelytics_prices(outcome) ==
    IF outcome.kind \in {"URLError", "JSONDecodeError"}
    THEN FxRaise("CloseError", "bluelytics fetch failed")
    ELSE IF outcome.kind # "data"
    THEN FxRaise("exception", outcome.kind)
    ELSE IF ~HasPair(outcome.data, "blue") \/ ~HasPair(outcome.data, "oficial")
    THEN FxRaise("CloseError", "unexpected bluelytics response shape")
    ELSE [kind |-> "prices", message |-> "",
          prices |-> [blue_buy |-> FloatOfJson(outcome.data["blue"]["value_buy"]).v,
                      blue_sell |-> FloatOfJson(outcome.data["blue"]["value_sell"]).v,
                      official_buy |-> FloatOfJson(outcome.data["oficial"]["value_buy"]).v,
                      official_sell |-> FloatOfJson(outcome.data["oficial"]["value_sell"]).v]]

\* the sections a page can hold: none, one without prices, one price, two
\* prices, three prices, and two texts of which the first is no number
FxSections ==
    {[found |-> FALSE, values |-> <<>>],
     [found |-> TRUE, values |-> <<>>],
     [found |-> TRUE, values |-> << <<"1", ".", "3", "0", "0", ",", "0", "0">> >>],
     [found |-> TRUE, values |-> << <<"1", ".", "3", "0", "0", ",", "0", "0">>,
                                    <<"1", ".", "3", "6", "0", ",", "0", "0">> >>],
     [found |-> TRUE, values |-> << <<"9", "5", "0", ",", "0", "0">>,
                                    <<"9", "9", "0", ",", "5", "0">>,
                                    <<"1", ".", "0", "1", "0">> >>],
     [found |-> TRUE, values |-> << <<"1", ".", "2", ".", "3">>, <<"5">> >>]}

FxPages == [blue : FxSections, official : FxSections]

\* what the Bluelytics endpoint can answer: the documented object, an object
\* whose numbers are strings, one without "oficial", one with a null, one
\* with a text that is no number, and a list
FxData ==
    LET JsonNum(v) == [t |-> "num", v |-> v, s |-> <<>>]
    IN
    {[blue |-> [value_buy |-> JsonNum(Fin(1200, 1)), value_sell |-> JsonNum(Fin(1260, 1))],
      oficial |-> [value_buy |-> JsonNum(Fin(980, 1)), value_sell |-> JsonNum(Fin(1020, 1))]],
     [blue |-> [value_buy |-> [t |-> "str", v |-> Zero, s |-> <<"1", "2", "0", "0", ".", "5">>],
                value_sell |-> JsonNum(Fin(1260, 1))],
      oficial |-> [value_buy |-> JsonNum(Fin(980, 1)), value_sell |-> JsonNum(Fin(1020, 1))]],
     [blue |-> [value_buy |-> JsonNum(Fin(1200, 1)), value_sell |-> JsonNum(Fin(1260, 1))]],
     [blue |-> [value_buy |-> JsonNum(Fin(1200, 1)), value_sell |-> JsonNum(Fin(1260, 1))],
      oficial |-> [value_buy |-> [t |-> "null", v |-> Zero, s |-> <<>>],
                   value_sell |-> JsonNum(Fin(1020, 1))]],
     [blue |-> [value_buy |-> JsonNum(Fin(1200, 1)),
                value_sell |-> [t |-> "str", v |-> Zero, s |-> <<"n", "/", "a">>]],
      oficial |-> [value_buy |-> JsonNum(Fin(980, 1)), value_sell |-> JsonNum(Fin(1020, 1))]],
     <<>>}

\* The read of a source ends with its content (kind "page" or "data") or
\* with an exception, whose class is the kind.
InitFx ==
    /\ InitPayroll
    /\ state_file = NoStateFile
    /\ ArsUnused
    /\ RowUnused
    /\ CloseUnused
    /\ fx_pc = "start"
    /\ fx_override \in {"unset", "empty", "path"}
    /\ fx_calls = <<>>
    /\ fx_seen = <<>>
    /\ fx_error = ""
    /\ fx_result = NoFxResult

\* a start that does not look at the variable
FxStartIgnoringOverride ==
    /\ fx_pc = "start"
    /\ fx_pc' = "dolarhoy"
    /\ UNCHANGED <<fx_override, fx_calls, fx_seen, fx_error, fx_result, payroll_vars, ars_vars,
                 row_vars, close_vars>>

\* fetch_market_prices, lines 101-104: the local file, when the variable
\* names one
FxStart ==
    /\ fx_pc = "start"
    /\ IF fx_override = "path" THEN
           \E read \in {[source |-> "file", kind |-> "OSError"]}
                        \cup {[source |-> "file", kind |-> "page", html |-> html] :
                                 html \in FxPages} :
               \E r \in {IF read.kind = "page" THEN parse_dolarhoy_html(read.html)
                          ELSE FxRaise("exception", read.kind)} :
                   /\ fx_pc' = "done"
                   /\ fx_seen' = Append(fx_seen, read)
                   /\ fx_result' = [kind |-> r.kind, source |-> "file",
                                    message |-> r.message, prices |-> r.prices]
       ELSE
           /\ fx_pc' = "dolarhoy"
           /\ UNCHANGED <<fx_seen, fx_result>>
    /\ UNCHANGED <<fx_override, fx_calls, fx_error, payroll_vars, ars_vars,
                 row_vars, close_vars>>

\* lines 107-114: dolarhoy; every Exception is kept in dolarhoy_error
FxDolarhoy ==
    /\ fx_pc = "dolarhoy"
    /\ fx_calls' = Append(fx_calls, "dolarhoy")
    /\ \E read \in {[source |-> "dolarhoy", kind |-> k] : k \in {"URLError", "TimeoutError"}}
                    \cup {[source |-> "dolarhoy", kind |-> "page", html |-> html] :
                             html \in FxPages} :
           \E r \in {IF read.kind = "page" THEN parse_dolarhoy_html(read.html)
                      ELSE FxRaise("exception", read.kind)} :
               /\ fx_seen' = Append(fx_seen, read)
               /\ IF r.kind = "prices" THEN
                      /\ fx_pc' = "done"
                      /\ fx_result' = [kind |-> r.kind, source |-> "dolarhoy",
                                       message |-> r.message, prices |-> r.prices]
                      /\ UNCHANGED fx_error
                  ELSE
                      /\ fx_pc' = "bluelytics"
                      /\ fx_error' = r.message
                      /\ UNCHANGED fx_result
    /\ UNCHANGED <<fx_override, payroll_vars, ars_vars,
                 row_vars, close_vars>>

\* lines 116-122: Bluelytics; only a CloseError becomes "all FX sources failed"
FxBluelytics ==
    /\ fx_pc = "bluelytics"
    /\ fx_calls' = Append(fx_calls, "bluelytics")
    /\ \E read \in {[source |-> "bluelytics", kind |-> k] :
                        k \in {"URLError", "JSONDecodeError", "RemoteDisconnected"}}
                    \cup {[source |-> "bluelytics", kind |-> "data", data |-> data] :
                             data \in FxData} :
           \E r \in {fetch_bluelytics_prices(read)} :
               /\ fx_seen' = Append(fx_seen, read)
               /\ fx_result' =
                     [kind |-> r.kind, source |-> "bluelytics",
                      message |-> IF r.kind = "CloseError" THEN "all FX sources failed"
                                  ELSE r.message,
                      prices |-> r.prices]
    /\ fx_pc' = "done"
    /\ UNCHANGED <<fx_override, fx_error, payroll_vars, ars_vars,
                 row_vars, close_vars>>

NextFx ==
    \/ FxStart
    \/ FxDolarhoy
    \/ FxBluelytics

SpecFx == InitFx /\ [][NextFx]_vars

(***************************************************************************)
(* Properties                                                              *)
(***************************************************************************)
\* a run of calc_payroll or of the monthly workflow has computed results[i]
Computed == prog \in {"calc_payroll", "run_monthly_payroll"}

\* C1: every breakdown returned by compute_payroll_for_person reconciles:
\* subtotal + eventos + otros equals total at two decimals, so the "cuadre"
\* check of validation_payload is OK for it.
C1_CuadreOfComputed ==
    Computed => \A i \in 1..Len(results) : CuadreCheck(results[i]) = "OK"

\* the monthly workflow has ended on a worker whose reference row is missing
FailedOnReferenceRow ==
    /\ prog = "run_monthly_payroll"
    /\ pc = "exited"
    /\ person_data # NoPersonData
    /\ ~find_reference_row(person_data.referencia, period_start).ok

\* C2: when the reference row of one worker cannot be resolved, the workflow
\* still computes the other workers and produces their breakdowns in its
\* response.
C2_OtherWorkersComputed ==
    FailedOnReferenceRow => output = "response" /\ Len(results) = Len(PersonKeys) - 1

\* the latest call of check_rules_updates returned a result
Returned == last_call.made /\ ~last_call.raised

\* C3: when two calls in sequence on one state directory get the same snippet
\* from every source, the second call returns "no_change".
C3_SameSnippetsNoChange ==
    (Returned /\ vs_prev = "same") => last_call.status = "no_change"

C3_Witness ==
    /\ Returned
    /\ vs_prev = "same"
    /\ last_call.status = "no_change"
    /\ \E i \in 1..Len(last_call.snippets) : last_call.snippets[i].snippet = Placeholder

\* C4: when the snippet of a source differs between two calls in sequence on
\* one state directory, the later call reports the change (the status the
\* code gives to a change) together with summary, sources and snippets.
C4_DifferentSnippetsReported ==
    (Returned /\ vs_prev = "differs") =>
        /\ last_call.status = ChangedStatus
        /\ last_call.keys = {"status", "summary", "sources", "snippets"}

\* the call found no checkpoint, or an object without a hash value
NoCheckpointFound == ~last_call.old_file.exists \/ last_call.old_file.hash = NoHash

\* C5: a call that finds no checkpoint, or a stored object without a hash,
\* never returns "no_change"; what it returns reports a change.
C5_FirstRunReportsChange ==
    (last_call.made /\ NoCheckpointFound) =>
        /\ last_call.status # "no_change"
        /\ Returned => last_call.status = ChangedStatus

C5_Witness ==
    /\ Returned
    /\ last_call.old_file = StateFile(NoHash)
    /\ last_call.status = ChangedStatus
    /\ state_file = StateFile(last_call.new_hash)

\* C6: every call of check_rules_updates compares its digest with the value
\* stored before the call and leaves the checkpoint equal to its digest, so
\* after any sequence of calls the checkpoint is the digest of the latest one.
C6_CheckpointIsLatestDigest ==
    last_call.made =>
        /\ ~last_call.raised
        /\ state_file = StateFile(last_call.new_hash)
        /\ last_call.status = "no_change" <=> last_call.old_file = StateFile(last_call.new_hash)

\* C7: whatever fails while a source is fetched or read, check_rules_updates
\* puts the placeholder in its place, goes on with the other sources and
\* returns a result with a status; no error leaves the function.
C7_NeverAborts ==
    last_call.made =>
        /\ ~last_call.raised
        /\ last_call.status \in {"no_change", ChangedStatus}
        /\ Len(last_call.snippets) = Len(LEGAL_SOURCES)

\* validation_payload has been called in this run
Validated == validation # NoValidation

\* every check of the worker results[i] is OK
AllChecksOk(i) ==
    \A c \in DOMAIN validation.validation_detail[results[i].person_key] :
        validation.validation_detail[results[i].person_key][c] = "OK"

\* C8: when the status of the rules check is anything but "no_change",
\* global_status is REVISAR and validation_short["normativa"] is REVISAR,
\* even if every check of every worker is OK.
C8_RulesGate ==
    (Validated /\ StatusOf(rules) # "no_change") =>
        /\ validation.global_status = "REVISAR"
        /\ validation.validation_short["normativa"] = "REVISAR"

C8_Witness ==
    /\ Validated
    /\ StatusOf(rules) = "None"
    /\ Len(results) = 2
    /\ \A i \in 1..Len(results) : AllChecksOk(i)
    /\ validation.global_status = "REVISAR"
    /\ validation.validation_short["normativa"] = "REVISAR"

\* C9: a worker's summary is OK exactly when its four checks are OK, and
\* global_status is OK exactly when the normativa entry and every worker's
\* summary are OK; one failing check makes both the worker's summary and
\* global_status REVISAR.
C9_Aggregation ==
    Validated =>
        /\ \A i \in 1..Len(results) :
              /\ DOMAIN validation.validation_detail[results[i].person_key] =
                    {"insumos", "cuadre", "coincidencia_arca_vs_pagos", "evidencia"}
              /\ validation.validation_short[results[i].person_name] = "OK" <=> AllChecksOk(i)
              /\ validation.validation_short[results[i].person_name] \in {"OK", "REVISAR"}
              /\ ~AllChecksOk(i) => validation.global_status = "REVISAR"
        /\ validation.global_status = "OK" <=>
              /\ validation.validation_short["normativa"] = "OK"
              /\ \A i \in 1..Len(results) :
                    validation.validation_short[results[i].person_name] = "OK"
        /\ validation.global_status \in {"OK", "REVISAR"}

C9_Witness ==
    /\ Validated
    /\ Len(results) = 2
    /\ validation.validation_short["normativa"] = "OK"
    /\ validation.validation_short[results[1].person_name] = "REVISAR"
    /\ validation.validation_detail[results[1].person_key]["cuadre"] = "REVISAR"
    /\ validation.validation_detail[results[1].person_key]["insumos"] = "OK"
    /\ validation.validation_short[results[2].person_name] = "OK"
    /\ validation.global_status = "REVISAR"

\* C10: the checks coincidencia_arca_vs_pagos and evidencia are OK for every
\* worker in mode "dry-run" and REVISAR for every worker in any other mode,
\* so outside "dry-run" global_status is REVISAR as soon as there is a worker.
C10_PolicyPlaceholders ==
    Validated =>
        /\ \A i \in 1..Len(results) :
              \A c \in {"coincidencia_arca_vs_pagos", "evidencia"} :
                  validation.validation_detail[results[i].person_key][c] =
                      IF mode = "dry-run" THEN "OK" ELSE "REVISAR"
        /\ (mode # "dry-run" /\ results # <<>>) => validation.global_status = "REVISAR"

C10_Witness ==
    /\ Validated
    /\ mode = "live"
    /\ StatusOf(rules) = "no_change"
    /\ Len(results) = 1
    /\ validation.validation_detail[results[1].person_key]["insumos"] = "OK"
    /\ validation.validation_detail[results[1].person_key]["cuadre"] = "OK"
    /\ validation.validation_detail[results[1].person_key]["evidencia"] = "REVISAR"
    /\ validation.global_status = "REVISAR"

\* the run has computed results[Len(results)] from person_data and period_start
Paired == Computed /\ results # <<>> /\ output # "error"

\* the row carries a date that parses and falls in the year and month of start
InPeriod(row, start) ==
    \E d \in {parse_date_local(Get(row, "Fecha"))} :
        d.ok /\ d.v.year = start.year /\ d.v.month = start.month

\* the rows of the event log of person_data that fall in the period
InPeriodRows == SelectSeq(person_data.eventos, LAMBDA row : InPeriod(row, period_start))

\* one of the in-period rows is marked as the entitlement
MarkedInPeriod ==
    \E rows \in {InPeriodRows} :
        \E i \in 1..Len(rows) :
            Contains(Lower(Get(rows[i], "Tipo de evento")),
                     <<"a", "g", "u", "i", "n", "a", "l", "d", "o">>)

\* C11: in a period of June or December where no collected event has a type
\* containing "aguinaldo" in any case, the breakdown carries exactly one
\* synthetic item, its amount is the float round(0.5 * subtotal, 2), and
\* otros is that same float.
C11_EntitlementEmitted ==
    (Paired /\ period_start.month \in {6, 12} /\ ~MarkedInPeriod) =>
        /\ Len(results[Len(results)].autopilot_items) = 1
        /\ results[Len(results)].autopilot_items[1].amount =
              Round2(FMul(results[Len(results)].subtotal, Fin(1, 2)))
        /\ results[Len(results)].otros = results[Len(results)].autopilot_items[1].amount

C11_Witness ==
    /\ Paired
    /\ period_start.month = 12
    /\ ~MarkedInPeriod
    /\ Len(person_data.eventos) = 2
    /\ Len(results[Len(results)].autopilot_items) = 1
    /\ results[Len(results)].subtotal = Fin(243, 2)
    /\ results[Len(results)].otros = Fin(243, 4)

\* C12: when a collected event is marked as the entitlement, or the period
\* is neither June nor December, the breakdown carries no synthetic item and
\* otros is 0.
C12_EntitlementSuppressed ==
    (Paired /\ (MarkedInPeriod \/ period_start.month \notin {6, 12})) =>
        /\ results[Len(results)].autopilot_items = <<>>
        /\ results[Len(results)].otros = Zero

C12_Witness ==
    /\ Paired
    /\ period_start.month = 6
    /\ MarkedInPeriod
    /\ results[Len(results)].autopilot_items = <<>>
    /\ results[Len(results)].otros = Zero
    /\ results[Len(results)].eventos = Fin(60, 1)

\* C13: eventos is the sum, rounded to 2 decimals, of the parsed amounts of
\* exactly the rows whose date parses and falls in the year and month of the
\* period, each row counted once per occurrence; the other rows add nothing
\* and raise nothing; with no such row eventos is 0.
C13_EventsOfPeriod ==
    Paired =>
        \E rows \in {InPeriodRows} :
            /\ results[Len(results)].eventos =
                  Round2(FSum([i \in 1..Len(rows) |->
                                  parse_ars(Get(rows[i], "Monto adicional/descuento"))]))
            /\ Len(results[Len(results)].event_items) = Len(rows)
            /\ rows = <<>> => results[Len(results)].eventos = Zero

C13_Witness ==
    /\ Paired
    /\ period_start.month = 2
    /\ person_data.eventos = <<EvBonoFeb, EvBonoFeb>>
    /\ results[Len(results)].eventos = Fin(24, 1)

C13_WitnessSkipped ==
    /\ Paired
    /\ period_start.month = 6
    /\ person_data.eventos = <<EvBadDate, EvAguinaldoOtherYear>>
    /\ results[Len(results)].eventos = Zero

\* a run has loaded person_data for the worker it computes last
Loaded == Computed /\ pc = "exited" /\ person_data # NoPersonData

\* the rows of the reference table whose label, trimmed and in lower case,
\* is the label of the period
MatchingRows ==
    {i \in 1..Len(person_data.referencia) :
        Lower(Strip(Get(person_data.referencia[i], "Periodo"))) = period_label(period_start)}

\* C14: when no row of the reference table has the label of the period
\* (compared in lower case after trimming), the computation raises the
\* payroll error and yields no breakdown for the worker: the run prints the
\* error object and exits with status 2; when a row has the label, whatever
\* its case and surrounding blanks, no payroll error is raised.
C14_MissingRowIsError ==
    Loaded =>
        /\ MatchingRows = {} =>
              /\ output = "error"
              /\ exit_code = 2
              /\ Len(results) < Len(PersonKeys)
              /\ prog = "calc_payroll" => results = <<>>
        /\ MatchingRows # {} => output # "error"

C14_Witness ==
    /\ Loaded
    /\ prog = "calc_payroll"
    /\ period_start.month = 2
    /\ person_data.referencia = <<RowFixed(LabelEne)>>
    /\ MatchingRows = {}
    /\ output = "error"
    /\ results = <<>>

\* the reference row used for results[Len(results)]
RefRow == person_data.referencia[CHOOSE i \in MatchingRows : \A j \in MatchingRows : i <= j]

\* the base the specification derives from the columns of a row
DerivedBase(row) ==
    IF FGt0(get_float(row, <<"Salario basico">>)) THEN get_float(row, <<"Salario basico">>)
    ELSE IF FGt0(get_float(row, <<"Dias habiles">>))
        THEN FMul(FMul(get_float(row, <<"Dias habiles">>),
                       get_float(row, <<"Horas/dia", "Horas diarias">>)),
                  get_float(row, <<"Basico/hora", "Basico hora">>))
    ELSE FMul(FMul(FMul(get_float(row, <<"Dias por semana">>),
                        get_float(row, <<"Semanas al mes">>)),
                   get_float(row, <<"Horas/dia", "Horas diarias">>)),
              get_float(row, <<"Basico/hora", "Basico hora">>))

\* C15: basico is the fixed base when that is present and positive; if not,
\* business days x hours per day x hourly rate when the business days are
\* positive, and days per week x weeks per month x hours per day x hourly
\* rate otherwise (each at two decimals).
C15_BaseDerivation ==
    Paired => results[Len(results)].basico = Round2(DerivedBase(RefRow))

\* C16: the seniority bonus is derived from the base as reported, at two
\* decimals: antiguedad is round(basico x percent / 100, 2) when the percent
\* is positive, and 0 when it is not.
C16_SeniorityOfRoundedBase ==
    Paired =>
        results[Len(results)].antiguedad =
            IF FGt0(get_float(RefRow, <<"Antiguedad">>))
            THEN Round2(FMul(results[Len(results)].basico,
                             FDivInt(get_float(RefRow, <<"Antiguedad">>), 100)))
            ELSE Zero

\* C17: a run that fails on a configuration error (no reference row, an
\* invalid period) prints the error object and exits with a status that is
\* not 0; a run that has computed every worker prints its result and exits
\* with status 0, whatever the validation and the rules check say.
C17_DistinctExitStatus ==
    (Computed /\ pc = "exited") =>
        /\ (period_start = NoDate \/ (Loaded /\ MatchingRows = {})) =>
              output = "error" /\ exit_code # 0
        /\ output = "error" => exit_code # 0
        /\ (prog = "run_monthly_payroll" /\ Len(results) = Len(PersonKeys)) =>
              output = "response" /\ exit_code = 0
        /\ (prog = "calc_payroll" /\ results # <<>>) =>
              output = "result" /\ exit_code = 0

\* the workflow has printed its response
Responded == prog = "run_monthly_payroll" /\ pc = "exited" /\ output = "response"

RulesBlocked ==
    \E i \in 1..Len(actions_blocked) : actions_blocked[i] = "await_user_approval_for_rules"

\* C18: in the response of the workflow, actions_blocked lists
\* "await_user_approval_for_rules" whenever the status of the monitor is not
\* "no_change", and it lists it exactly when validation_short["normativa"]
\* is REVISAR.
C18_RuleChangeBlocks ==
    Responded =>
        /\ StatusOf(rules) # "no_change" => RulesBlocked
        /\ RulesBlocked <=> validation.validation_short["normativa"] = "REVISAR"

C18_Witness ==
    /\ Responded
    /\ StatusOf(rules) = ChangedStatus
    /\ RulesBlocked
    /\ validation.validation_short["normativa"] = "REVISAR"
    /\ \A i \in 1..Len(results) : AllChecksOk(i)

\* C19: for every finite amount x, parse_ars(format_ars(x)) is round(x, 2);
\* a negative x is rendered with the prefix "- " and no other amount is, and
\* an amount that is negative at two decimals parses back as negative.
C19_AmountRoundTrip ==
    /\ ars_pc = "parsed" =>
          /\ ars_back = Round2(ars_x)
          /\ Round2(ars_x).n < 0 => ars_back.n < 0
    /\ ars_pc \in {"formatted", "parsed"} =>
          /\ ars_x.n < 0 <=> StartsWith(ars_text, <<"-", " ", "A", "R", "$">>)
          /\ ars_x.n >= 0 <=> StartsWith(ars_text, <<"A", "R", "$">>)
    /\ ars_pc = "raised" => ~IsFin(ars_x)

C19_Witness ==
    /\ ars_pc = "parsed"
    /\ ars_x = Fin(-9999996, 1000)
    /\ ars_text = <<"-", " ", "A", "R", "$", "1", "0", ".", "0", "0", "0", ",", "0", "0">>
    /\ ars_back = Fin(-10000, 1)

\* the read of a source and what was made of it yielded prices
FxSucceeded(read) ==
    IF read.kind = "page" THEN parse_dolarhoy_html(read.html).kind = "prices"
    ELSE read.kind = "data" /\ fetch_bluelytics_prices(read).kind = "prices"

\* C20: when DOLARHOY_HTML_PATH names a file no network source is contacted,
\* whatever the outcome.  Otherwise dolarhoy is contacted first and its
\* prices are returned when it succeeds; Bluelytics is contacted only after
\* dolarhoy has failed, and its prices are returned when it succeeds; the
\* CloseError "all FX sources failed" is raised only when both have failed.
C20_FallbackOrder ==
    /\ fx_override = "path" => fx_calls = <<>>
    /\ (fx_override # "path" /\ fx_pc \in {"bluelytics", "done"}) =>
          /\ fx_calls \in {<<"dolarhoy">>, <<"dolarhoy", "bluelytics">>}
          /\ Len(fx_seen) = Len(fx_calls)
          /\ Len(fx_calls) = 2 => ~FxSucceeded(fx_seen[1])
          /\ (fx_pc = "bluelytics" \/ Len(fx_calls) = 2) <=> ~FxSucceeded(fx_seen[1])
    /\ (fx_override # "path" /\ fx_pc = "done") =>
          /\ FxSucceeded(fx_seen[1]) =>
                /\ fx_result.kind = "prices"
                /\ fx_result.source = "dolarhoy"
                /\ fx_result.prices = parse_dolarhoy_html(fx_seen[1].html).prices
          /\ (~FxSucceeded(fx_seen[1]) /\ FxSucceeded(fx_seen[2])) =>
                /\ fx_result.kind = "prices"
                /\ fx_result.source = "bluelytics"
                /\ fx_result.prices = fetch_bluelytics_prices(fx_seen[2]).prices
          /\ fx_result.kind = "CloseError" =>
                /\ fx_result.message = "all FX sources failed"
                /\ ~FxSucceeded(fx_seen[1])
                /\ ~FxSucceeded(fx_seen[2])
    /\ fx_result.message = "all FX sources failed" =>
          Len(fx_seen) = 2 /\ ~FxSucceeded(fx_seen[1]) /\ ~FxSucceeded(fx_seen[2])

C20_Witness ==
    /\ fx_pc = "done"
    /\ fx_override = "unset"
    /\ fx_calls = <<"dolarhoy", "bluelytics">>
    /\ fx_seen[1].kind = "page"
    /\ fx_error = "insufficient price points in section"
    /\ fx_result.kind = "prices"
    /\ fx_result.source = "bluelytics"
    /\ fx_result.prices.blue_buy = Fin(2401, 2)

C20_WitnessOverride ==
    /\ fx_pc = "done"
    /\ fx_override = "path"
    /\ fx_calls = <<>>
    /\ fx_result.kind = "CloseError"

\* the row gives no positive fixed base, and each of its rate and quantity
\* columns is missing, blank or zero
Degraded(row) ==
    /\ ~FGt0(get_float(row, <<"Salario basico">>))
    /\ \A c \in {<<"Horas/dia", "Horas diarias">>, <<"Basico/hora", "Basico hora">>,
                 <<"Dias habiles">>, <<"Dias por semana">>, <<"Semanas al mes">>} :
           get_float(row, c) = Zero

\* C22: a reference row without a positive fixed base whose rate and quantity
\* columns are missing or zero yields a breakdown with basico 0 and no error;
\* validation_payload then gives REVISAR for that worker's "insumos" check,
\* for the worker's summary and for global_status.
C22_LenientDegradation ==
    (Loaded /\ MatchingRows # {}) =>
        \E row \in {RefRow} :
            Degraded(row) =>
                /\ output # "error"
                /\ results # <<>>
                /\ results[Len(results)].basico = Zero
                /\ Validated =>
                      /\ validation.validation_detail[results[Len(results)].person_key]["insumos"]
                            = "REVISAR"
                      /\ validation.validation_short[results[Len(results)].person_name]
                            = "REVISAR"
                      /\ validation.global_status = "REVISAR"

\* C23: when two or more rows of the reference table carry the label of the
\* period, the resolution fails with the payroll error and returns none of
\* them; a breakdown is computed only when exactly one row carries the label.
C23_AmbiguousRowIsError ==
    Loaded =>
        /\ Cardinality(MatchingRows) >= 2 =>
              /\ output = "error"
              /\ exit_code = 2
              /\ Len(results) < Len(PersonKeys)
        /\ (output # "error" /\ results # <<>>) => Cardinality(MatchingRows) = 1

\* the monthly workflow has ended with the payroll error of a worker
AbortedOnWorker ==
    /\ prog = "run_monthly_payroll"
    /\ pc = "exited"
    /\ output = "error"
    /\ period_start # NoDate

\* C24: the monthly workflow calls the monitor, which overwrites the
\* checkpoint, before it computes any worker; when the run then ends with a
\* payroll error the checkpoint holds the digest of that run although the
\* change it detected was printed in no response; the next call on identical
\* snippets returns "no_change".
C24_CheckpointConsumedFirst ==
    /\ (prog = "run_monthly_payroll" /\ (pc \in {"loop", "finish"} \/ results # <<>>)) =>
          /\ Returned
          /\ state_file = StateFile(last_call.new_hash)
          /\ StatusOf(rules) = last_call.status
    /\ AbortedOnWorker =>
          /\ Returned
          /\ state_file = StateFile(last_call.new_hash)
          /\ last_call.status = ChangedStatus => change_fate = "aborted"
    /\ (Returned /\ vs_prev = "same" /\ change_fate = "aborted") =>
          last_call.status = "no_change"

C24_Witness ==
    /\ prog = "run_monthly_payroll"
    /\ pc = "exited"
    /\ output = "response"
    /\ Returned
    /\ vs_prev = "same"
    /\ change_fate = "aborted"
    /\ last_call.status = "no_change"
    /\ StatusOf(rules) = "no_change"
    /\ ~RulesBlocked

\* C25: a call of check_rules_updates that finds a checkpoint it cannot
\* decode as a JSON object raises and leaves the file as it was; no run
\* repairs the file, so every later call fails as well: the monitor script
\* ends with a traceback and the monthly workflow computes no worker.
C25_UnreadableCheckpoint ==
    /\ (last_call.made /\ last_call.old_file = CorruptStateFile) =>
          /\ last_call.raised
          /\ state_file = CorruptStateFile
    /\ (last_call.made /\ last_call.raised) => state_file = last_call.old_file
    /\ (state_file = CorruptStateFile /\ prog = "check_rules_updates" /\ pc = "exited") =>
          /\ last_call.raised
          /\ output = "traceback"
          /\ exit_code = 1
    /\ (state_file = CorruptStateFile /\ prog = "run_monthly_payroll") =>
          /\ pc \notin {"loop", "finish"}
          /\ results = <<>>
          /\ output \in {"", "error", "gate", "traceback"}

\* a run of the workflow is about to call the monitor after an earlier call
\* has failed on the checkpoint
C25_Witness ==
    /\ prog = "run_monthly_payroll"
    /\ pc = "rules"
    /\ last_call.made
    /\ last_call.raised
    /\ last_call.old_file = CorruptStateFile
    /\ state_file = CorruptStateFile

\* the step is a call of check_rules_updates, by the workflow or by the script
CallStep ==
    \/ pc = "rules" /\ pc' # "rules"
    \/ pc = "idle" /\ pc' = "exited" /\ prog' = "check_rules_updates"

\* in that call source k was read, and in that call its fetch was replaced by
\* the placeholder
Succeeded(call, k) == ~call.raised /\ call.snippets[k].snippet # Placeholder

Replaced(call, k) == ~call.raised /\ call.snippets[k].snippet = Placeholder

\* a source that was read in the previous call fails in this one: it is
\* replaced by the placeholder, or every source was read before and this call
\* is left by the exception of a fetch
FailsAfterSuccess ==
    /\ Returned
    /\ \/ \E k \in 1..Len(LEGAL_SOURCES) : Succeeded(last_call, k) /\ Replaced(last_call', k)
       \/ /\ last_call'.raised
          /\ \A k \in 1..Len(LEGAL_SOURCES) : Succeeded(last_call, k)

\* a source that failed in the previous call is read in this one
Recovers ==
    \/ /\ Returned
       /\ \E k \in 1..Len(LEGAL_SOURCES) : Replaced(last_call, k) /\ Succeeded(last_call', k)
    \/ /\ last_call.made
       /\ last_call.raised
       /\ last_call.old_file # CorruptStateFile
       /\ \A k \in 1..Len(LEGAL_SOURCES) : Succeeded(last_call', k)

\* C26: a call in which a source fails that was read in the call before
\* reports a change; the call in which the source is read again reports a
\* change again; of two calls in sequence in which the same sources fail and
\* the other snippets are equal, the second returns "no_change".
C26_FailuresFingerprinted ==
    [][CallStep =>
          /\ FailsAfterSuccess => last_call'.status = ChangedStatus
          /\ Recovers => last_call'.status = ChangedStatus
          /\ (Returned /\ ~last_call'.raised /\ last_call'.snippets = last_call.snippets
                /\ \E k \in 1..Len(LEGAL_SOURCES) : Replaced(last_call', k)) =>
                last_call'.status = "no_change"]_vars

(***************************************************************************)
(* Ledger rows: compute_payroll_for_person, then build_pagos_row           *)
(***************************************************************************)
\* the first days of the periods a row is built for
RowPeriods ==
    {[year |-> 2026, month |-> 2, day |-> 1], [year |-> 2026, month |-> 6, day |-> 1],
     [year |-> 2026, month |-> 12, day |-> 1]}

\* f"{p_date.day}/{p_date.month}/{p_date.year}" for the last day of b.period
PagosFecha(period) ==
    NatStr(DaysInMonth(NatOf(SubSeq(period, 1, 4)), NatOf(SubSeq(period, 6, Len(period)))))
        \o <<"/">> \o NatStr(NatOf(SubSeq(period, 6, Len(period))))
        \o <<"/">> \o SubSeq(period, 1, 4)

\* a row whose "Otros" column leaves the events out
PagosRowOtrosOnly(b) ==
    IF PagosRowRaises(b) THEN [ok |-> FALSE, row |-> <<>>]
    ELSE [ok |-> TRUE,
          row |-> ("Fecha" :> PagosFecha(b.period) @@
                   "Basico" :> format_ars(b.basico).text @@
                   "Antiguedad" :> format_ars(b.antiguedad).text @@
                   "Viaticos" :> format_ars(b.viaticos).text @@
                   "Subtotal" :> format_ars(b.subtotal).text @@
                   "Otros" :> format_ars(b.otros).text @@
                   "Total" :> format_ars(b.total).text @@
                   "Notas" :> <<>>)
                      @@ (IF b.person_key = "mariza"
                          THEN "Eventos" :> format_ars(b.eventos).text
                          ELSE <<>>)]

\* build_pagos_row: the date, the amounts and the notes of the row, under the
\* headers of the sheet written without accents; [ok |-> FALSE] stands for
\* the ValueError of format_ars. The row of "mariza" has the columns
\* "Eventos" and "Otros", the other one adds the events to "Otros".
build_pagos_row(b) ==
    IF PagosRowRaises(b) THEN [ok |-> FALSE, row |-> <<>>]
    ELSE [ok |-> TRUE,
          row |-> ("Fecha" :> PagosFecha(b.period) @@
                   "Basico" :> format_ars(b.basico).text @@
                   "Antiguedad" :> format_ars(b.antiguedad).text @@
                   "Viaticos" :> format_ars(b.viaticos).text @@
                   "Subtotal" :> format_ars(b.subtotal).text @@
                   "Total" :> format_ars(b.total).text @@
                   "Notas" :> <<>>)
                      @@ (IF b.person_key = "mariza"
                          THEN ("Eventos" :> format_ars(b.eventos).text @@
                                "Otros" :> format_ars(b.otros).text)
                          ELSE "Otros" :> format_ars(FAdd(b.eventos, b.otros)).text)]

\* an entitlement dated on a day that does not exist
EvAguinaldoBadDate ==
    ("Fecha" :> <<"3", "1", "/", "0", "6", "/", "2", "0", "2", "6">> @@
     "Tipo de evento" :> <<"A", "g", "u", "i", "n", "a", "l", "d", "o">> @@
     "Descripcion" :> <<>> @@
     "Monto adicional/descuento" :> <<"A", "R", "$", "7", "0", ",", "0", "0">>)

\* every event log of at most MaxEvents rows, that row among them
RowEventLogs ==
    UNION {[1..n -> {EvBonoFeb, EvDescuentoFeb, EvNanFeb, EvBonoJun, EvAguinaldoJun,
                     EvAguinaldoOtherYear, EvAguinaldoDic, EvBadDate, EvAguinaldoBadDate}] :
              n \in 0..MaxEvents}

InitRow ==
    /\ InitPayroll
    /\ state_file = NoStateFile
    /\ ArsUnused
    /\ FxUnused
    /\ CloseUnused
    /\ row_pc = "drawn"
    /\ row_in \in [person_key : {"mariza", "irma"}, period_start : RowPeriods,
                   data : {PersonData(referencia, eventos) :
                              referencia \in ReferenceTables, eventos \in RowEventLogs}]
    /\ row_b = NoBreakdown
    /\ row_out = <<>>

\* compute_payroll_for_person(person_key, period_start, person_data)
RowCompute ==
    /\ row_pc = "drawn"
    /\ \E r \in {compute_payroll_for_person(row_in.person_key, row_in.period_start,
                                            row_in.data)} :
          /\ row_pc' = IF r.ok THEN "computed" ELSE "raised"
          /\ row_b' = r.b
    /\ UNCHANGED <<row_in, row_out, payroll_vars, ars_vars, fx_vars, close_vars>>

\* build_pagos_row(b)
RowBuild ==
    /\ row_pc = "computed"
    /\ row_pc' = IF build_pagos_row(row_b).ok THEN "built" ELSE "raised"
    /\ row_out' = build_pagos_row(row_b).row
    /\ UNCHANGED <<row_in, row_b, payroll_vars, ars_vars, fx_vars, close_vars>>

NextRow ==
    \/ RowCompute
    \/ RowBuild

SpecRow == InitRow /\ [][NextRow]_vars

\* the amount written in a column of the row
RowAmount(column) == parse_ars(row_out[column])

\* C27: a ledger row that was built reconciles once its texts are parsed
\* back: "Basico" + "Antiguedad" + "Viaticos" is "Subtotal" in both shapes;
\* "Subtotal" + "Eventos" + "Otros" is "Total" in the row of mariza, and
\* "Subtotal" + "Otros" is "Total" in the other row, whose "Otros" is the
\* text of eventos + otros.
C27_LedgerRowReconciles ==
    row_pc = "built" =>
        /\ FEq(FAdd(FAdd(RowAmount("Basico"), RowAmount("Antiguedad")), RowAmount("Viaticos")),
               RowAmount("Subtotal"))
        /\ row_b.person_key = "mariza" =>
              /\ "Eventos" \in DOMAIN row_out
              /\ FEq(FAdd(FAdd(RowAmount("Subtotal"), RowAmount("Eventos")),
                          RowAmount("Otros")),
                     RowAmount("Total"))
        /\ row_b.person_key # "mariza" =>
              /\ "Eventos" \notin DOMAIN row_out
              /\ row_out["Otros"] = format_ars(FAdd(row_b.eventos, row_b.otros)).text
              /\ FEq(FAdd(RowAmount("Subtotal"), RowAmount("Otros")), RowAmount("Total"))

\* a row of the second shape for a June with a bonus and the automatic
\* aguinaldo, so that "Otros" carries both
C27_Witness ==
    /\ row_pc = "built"
    /\ row_b.person_key = "irma"
    /\ row_b.eventos # Zero
    /\ row_b.otros # Zero
    /\ row_b.subtotal # Zero

\* the run in progress is run_monthly_payroll, the day gate is not ignored,
\* today is not the 1st and the period is the current month
DayGateCloses(gate, start) ==
    /\ ~gate.ignore_day_gate
    /\ gate.today # NoDate
    /\ gate.today.day # 1
    /\ gate.today.year = start.year
    /\ gate.today.month = start.month

\* C28: a run of run_monthly_payroll whose date gate closes ends at once: it
\* prints actions_blocked = ["date_gate"] with no action taken, exits 0, does
\* not call the monitor (the checkpoint and the monitor's history are those
\* of before) and computes no worker.
C28_DateGateFrame ==
    [][(pc = "idle" /\ prog' = "run_monthly_payroll" /\ DayGateCloses(day_gate', period_start'))
          => /\ pc' = "exited"
             /\ output' = "gate"
             /\ exit_code' = 0
             /\ actions_blocked' = <<"date_gate">>
             /\ actions_taken' = <<>>
             /\ rules' = NoRules
             /\ state_file' = state_file
             /\ last_call' = last_call
             /\ results' = <<>>
             /\ validation' = NoValidation]_vars

\* a run stopped by the date gate after an earlier run had left a checkpoint
C28_Witness ==
    /\ prog = "run_monthly_payroll"
    /\ pc = "exited"
    /\ DayGateCloses(day_gate, period_start)
    /\ output = "gate"
    /\ state_file.exists
    /\ last_call.made

\* the row of the log is marked as the entitlement
Marked(row) ==
    Contains(Lower(Get(row, "Tipo de evento")), <<"a", "g", "u", "i", "n", "a", "l", "d", "o">>)

\* a marked row of the log handed to the computation falls in its period
RowMarkedInPeriod ==
    \E i \in 1..Len(row_in.data.eventos) :
        Marked(row_in.data.eventos[i]) /\ InPeriod(row_in.data.eventos[i], row_in.period_start)

\* a marked row of that log falls outside the period, or has no date
RowMarkedElsewhere ==
    \E i \in 1..Len(row_in.data.eventos) :
        Marked(row_in.data.eventos[i]) /\ ~InPeriod(row_in.data.eventos[i], row_in.period_start)

\* C29: in a period of June or December the synthetic item is suppressed
\* exactly when a marked event falls in the period: marked events of another
\* month or year, or without a date that parses, do not suppress it; and
\* the synthetic items are those computed for the same worker, period and
\* reference table with an empty event log, so they depend on the subtotal
\* alone.
C29_SuppressionInPeriodOnly ==
    (row_pc \in {"computed", "built"} /\ row_in.period_start.month \in {6, 12}) =>
        /\ RowMarkedInPeriod <=> row_b.autopilot_items = <<>>
        /\ ~RowMarkedInPeriod =>
              /\ Len(row_b.autopilot_items) = 1
              /\ row_b.autopilot_items =
                    compute_payroll_for_person(
                        row_in.person_key, row_in.period_start,
                        PersonData(row_in.data.referencia, <<>>)).b.autopilot_items

\* June, with an entitlement of December and one dated on 31 June in the log
C29_Witness ==
    /\ row_pc = "computed"
    /\ row_in.period_start.month = 6
    /\ row_in.data.eventos = <<EvAguinaldoDic, EvAguinaldoBadDate>>
    /\ RowMarkedElsewhere
    /\ ~RowMarkedInPeriod
    /\ Len(row_b.autopilot_items) = 1
    /\ row_b.otros # Zero
    /\ row_b.eventos = Zero

(***************************************************************************)
(* run_monthly_close.py: the monthly close                                 *)
(***************************************************************************)
\* |a|
FAbs(a) == IF a.n < 0 THEN FNeg(a) ELSE a

\* a / b for a float b that is finite and not zero
FDiv(a, b) ==
    IF a.k = "nan" THEN NaN
    ELSE IF a.k = "inf" THEN (IF b.n > 0 THEN a ELSE FNeg(a))
    ELSE IF b.n > 0 THEN Fin(a.n * b.d, a.d * b.n)
    ELSE Fin(-(a.n * b.d), a.d * (-b.n))

\* a > b (every comparison with nan is false)
FGt(a, b) == FGt0(FAdd(a, FNeg(b)))

\* close_lib.round_money(value, 2): Decimal(str(value)) quantized to cents
\* with ROUND_HALF_UP, ties away from zero; a nan stays a nan and
\* [ok |-> FALSE] stands for the decimal.InvalidOperation of an infinity
round_money(value) ==
    IF value.k = "inf" THEN [ok |-> FALSE, v |-> Zero]
    ELSE IF value.k = "nan" THEN [ok |-> TRUE, v |-> NaN]
    ELSE LET num == FAbs(value).n * 100
             q == num \div value.d
             c == IF 2 * (num % value.d) >= value.d THEN q + 1 ELSE q
         IN  [ok |-> TRUE, v |-> Fin(IF value.n < 0 THEN -c ELSE c, 100)]

\* the loop of read_last_month_amount over the cells of the ARS column, last
\* row first: the first cell that is not blank and that parse_amount accepts
RECURSIVE LastAmount(_)
LastAmount(cells) ==
    IF cells = <<>> THEN NoLast
    ELSE IF Strip(cells[Len(cells)]) # <<>> /\ parse_amount(cells[Len(cells)]).ok
        THEN [kind |-> "amount", v |-> parse_amount(cells[Len(cells)]).v]
    ELSE LastAmount(SubSeq(cells, 1, Len(cells) - 1))

\* read_last_month_amount: None without the Google client libraries, without
\* a sheet that can be read or without an amount in it; with the libraries
\* and without the service account file _load_service_account raises
\* CloseError
read_last_month_amount(google, sheet) ==
    IF google = "no_client" THEN NoLast
    ELSE IF google = "no_file" THEN [kind |-> "CloseError", v |-> Zero]
    ELSE IF sheet.kind # "rows" THEN NoLast
    ELSE LastAmount(sheet.cells)

\* lines 199-210 of _resolve_amounts
AmountsOfChange(last, proposed_ars, proposed_usd, changed, confirm_amount_change) ==
    IF changed /\ ~confirm_amount_change
    THEN NoAmountsOf("CloseError", "amount changed")
    ELSE [kind |-> "amounts", message |-> "", amount_ars |-> proposed_ars,
          amount_usd |-> proposed_usd, changed |-> changed, historical_amount_ars |-> last]

\* lines 197-199
AmountsOfProposed(fallback, last, proposed_ars, fx_rate, confirm_amount_change) ==
    LET quotient == IF fx_rate = Zero THEN Zero ELSE FDiv(proposed_ars, fx_rate)
    IN  IF ~round_money(quotient).ok THEN NoAmountsOf("exception", "InvalidOperation")
        ELSE AmountsOfChange(last, proposed_ars, round_money(quotient).v,
                             last.kind = "amount"
                                 /\ FGt(FAbs(FAdd(fallback, FNeg(last.v))), Fin(9, 1000)),
                             confirm_amount_change)

\* a gate that lets a changed amount through
ResolveAmountsUngated(fallback, last, fx_rate, confirm_amount_change) ==
    IF last.kind = "CloseError" THEN NoAmountsOf("CloseError", "missing service account file")
    ELSE AmountsOfProposed(fallback, last, IF last.kind = "amount" THEN last.v ELSE fallback,
                           fx_rate, TRUE)

\* _resolve_amounts, given what read_last_month_amount ended in: the kind is
\* "amounts" for the returned dict, "CloseError", or "exception"
resolve_amounts(fallback, last, fx_rate, confirm_amount_change) ==
    IF last.kind = "CloseError" THEN NoAmountsOf("CloseError", "missing service account file")
    ELSE AmountsOfProposed(fallback, last, IF last.kind = "amount" THEN last.v ELSE fallback,
                           fx_rate, confirm_amount_change)

MaxPeople == 2

\* person.get("fallback_amount_ars", 0): configured, or absent
Fallbacks == {Fin(1200, 1), Zero}

\* the debt sheet of a person as read_last_month_amount finds it: one that
\* cannot be read, and the cells of the ARS column below the header
DebtSheets ==
    {[kind |-> "unreadable", cells |-> <<>>]}
        \cup {[kind |-> "rows", cells |-> cells] :
                 cells \in {<<>>,
                            << <<"1", "2", "0", "0">> >>,
                            << <<"1", "1", "0", "0">> >>,
                            << <<"1", "2", "0", "0", ",", "0", "0", "5">> >>,
                            << <<"i", "n", "f">> >>,
                            << <<"n", "a", "n">> >>,
                            << <<"1", "1", "0", "0">>, <<"x">> >>,
                            << <<"1", "2", "0", "0">>, <<" ">> >>}}

\* the arguments, the configuration and the environment of a run
CloseInputs ==
    [people : 0..MaxPeople,
     dry_run : BOOLEAN, confirm_amount_change : BOOLEAN, skip_ynab : BOOLEAN,
     skip_google : BOOLEAN,
     google : {"no_client", "no_file", "client"},
     sheets_webhook : BOOLEAN,
     token : BOOLEAN]

InitClose ==
    /\ InitPayroll
    /\ state_file = NoStateFile
    /\ ArsUnused
    /\ FxUnused
    /\ RowUnused
    /\ close_pc = "start"
    /\ close_in \in CloseInputs
    /\ close_fx = Zero
    /\ close_k = 0
    /\ close_person = NoPerson
    /\ close_amounts = NoCloseAmounts
    /\ close_taken = <<>>
    /\ close_blocked = <<>>
    /\ close_writes = <<>>
    /\ close_artifact = "none"
    /\ close_exit = NoCloseExit

CloseRaise(kind, code, message) ==
    /\ close_pc' = "exited"
    /\ close_exit' = [kind |-> kind, code |-> code, message |-> message]

\* a loop that evaluates the gate for the first person only
AfterPersonUngated(k) == IF k = 0 THEN "amounts" ELSE IF k < close_in.people THEN "sheets" ELSE "finish"

\* the position after a person, or after the last one
AfterPerson(k) == IF k < close_in.people THEN "amounts" ELSE "finish"

\* main(), lines 239-275: the configuration, the date gate and the exchange
\* rate
CloseStart ==
    /\ close_pc = "start"
    /\ \/ \* _load_config raises CloseError
          /\ CloseRaise("CloseError", 2, "config")
          /\ UNCHANGED <<close_fx, close_taken, close_blocked, close_artifact, close_k>>
       \/ \* the date gate is closed: the skipped response is written and printed
          /\ close_pc' = "exited"
          /\ close_exit' = [kind |-> "ok", code |-> 0, message |-> "skipped"]
          /\ close_artifact' = "skipped"
          /\ close_blocked' = << <<"date_gate", 0, "">> >>
          /\ UNCHANGED <<close_fx, close_taken, close_k>>
       \/ \* resolve_fx raises CloseError
          /\ CloseRaise("CloseError", 2, "fx")
          /\ UNCHANGED <<close_fx, close_taken, close_blocked, close_artifact, close_k>>
       \/ \E fx_rate \in {Fin(1000, 1), Fin(2501, 2), Zero} :
             /\ close_fx' = fx_rate
             /\ close_taken' = << <<"date_gate_ok", 0, "">>, <<"fx_calculated", 0, "">> >>
             /\ close_k' = 1
             /\ close_pc' = AfterPerson(0)
             /\ UNCHANGED <<close_blocked, close_artifact, close_exit>>
    /\ UNCHANGED <<close_in, close_person, close_amounts, close_writes, payroll_vars,
                   ars_vars, fx_vars, row_vars>>

\* line 278: _resolve_amounts for the person in progress
CloseAmounts ==
    /\ close_pc = "amounts"
    /\ \E fallback \in Fallbacks, sheet \in DebtSheets :
          \E r \in {resolve_amounts(fallback, read_last_month_amount(close_in.google, sheet),
                                    close_fx, close_in.confirm_amount_change)} :
              /\ close_person' = [fallback |-> fallback,
                                   last |-> read_last_month_amount(close_in.google, sheet)]
              /\ close_amounts' = r
              /\ IF r.kind = "amounts" THEN
                     /\ close_pc' = "sheets"
                     /\ UNCHANGED close_exit
                 ELSE IF r.kind = "CloseError" THEN CloseRaise("CloseError", 2, r.message)
                 ELSE CloseRaise("traceback", 1, r.message)
    /\ UNCHANGED <<close_in, close_k, close_fx, close_taken, close_blocked, close_writes,
                   close_artifact, payroll_vars, ars_vars, fx_vars, row_vars>>

\* a request sent for the person in progress
CloseWrite(kind, status) ==
    [kind |-> kind, k |-> close_k, amount_ars |-> close_amounts.amount_ars, status |-> status]

\* lines 281-300: the debt row, through append_sheet_row unless --skip-google
CloseSheets ==
    /\ close_pc = "sheets"
    /\ IF close_in.skip_google THEN
           /\ close_blocked' = Append(close_blocked, <<"sheets_debt", close_k, "skipped">>)
           /\ close_pc' = "ynab"
           /\ UNCHANGED <<close_taken, close_writes, close_exit>>
       ELSE IF close_in.dry_run THEN
           /\ close_taken' = Append(close_taken, <<"sheets_debt", close_k, "dry_run">>)
           /\ close_pc' = "ynab"
           /\ UNCHANGED <<close_blocked, close_writes, close_exit>>
       ELSE IF close_in.sheets_webhook THEN
           \/ /\ close_writes' = Append(close_writes, CloseWrite("sheets", "webhook"))
              /\ close_taken' = Append(close_taken, <<"sheets_debt", close_k, "webhook">>)
              /\ close_pc' = "ynab"
              /\ UNCHANGED <<close_blocked, close_exit>>
           \/ \* urlopen raises
              /\ close_writes' = Append(close_writes, CloseWrite("sheets", "raised"))
              /\ CloseRaise("traceback", 1, "URLError")
              /\ UNCHANGED <<close_taken, close_blocked>>
       ELSE IF close_in.google = "no_client" THEN
           /\ close_taken' = Append(close_taken, <<"sheets_debt", close_k, "skipped">>)
           /\ close_pc' = "ynab"
           /\ UNCHANGED <<close_blocked, close_writes, close_exit>>
       ELSE
           \/ /\ close_writes' = Append(close_writes, CloseWrite("sheets", "ok"))
              /\ close_taken' = Append(close_taken, <<"sheets_debt", close_k, "ok">>)
              /\ close_pc' = "ynab"
              /\ UNCHANGED <<close_blocked, close_exit>>
           \/ \* execute() raises
              /\ close_writes' = Append(close_writes, CloseWrite("sheets", "raised"))
              /\ CloseRaise("traceback", 1, "HttpError")
              /\ UNCHANGED <<close_taken, close_blocked>>
    /\ UNCHANGED <<close_in, close_k, close_fx, close_person, close_amounts, close_artifact,
                   payroll_vars, ars_vars, fx_vars, row_vars>>

\* the end of an iteration of the loop over the people
NextPerson ==
    /\ close_k' = close_k + 1
    /\ close_pc' = AfterPerson(close_k)
    /\ close_amounts' = NoCloseAmounts

\* lines 302-343: the message template, the YNAB transaction unless
\* --skip-ynab, and the summary of the person
CloseYnab ==
    /\ close_pc = "ynab"
    /\ \/ \* _load_template raises CloseError
          /\ CloseRaise("CloseError", 2, "missing whatsapp template key")
          /\ UNCHANGED <<close_k, close_amounts, close_taken, close_writes>>
       \/ IF close_in.skip_ynab THEN
              /\ NextPerson
              /\ UNCHANGED <<close_taken, close_writes, close_exit>>
          ELSE IF ~IsFin(close_amounts.amount_ars) THEN
              \* int(round(amount_ars * 1000)) in _build_transaction
              /\ CloseRaise("traceback", 1, "ValueError or OverflowError")
              /\ UNCHANGED <<close_k, close_amounts, close_taken, close_writes>>
          ELSE IF close_in.dry_run \/ ~close_in.token THEN
              /\ close_taken' =
                    Append(close_taken,
                           <<"ynab", close_k, IF close_in.dry_run THEN "dry_run" ELSE "skipped">>)
              /\ NextPerson
              /\ UNCHANGED <<close_writes, close_exit>>
          ELSE \E status \in {"ok", "error"} :
              /\ close_writes' = Append(close_writes, CloseWrite("ynab", status))
              /\ close_taken' = Append(close_taken, <<"ynab", close_k, status>>)
              /\ NextPerson
              /\ UNCHANGED close_exit
    /\ UNCHANGED <<close_in, close_fx, close_person, close_blocked, close_artifact,
                   payroll_vars, ars_vars, fx_vars, row_vars>>

\* upload_invoice_file and append_sheet_row end in a status without raising
InvoiceStatus(webhook) ==
    IF close_in.dry_run THEN "dry_run"
    ELSE IF webhook THEN "webhook"
    ELSE IF close_in.google = "client" THEN "ok"
    ELSE "skipped"

InvoiceWrite(kind, status) ==
    IF status \in {"webhook", "ok", "raised"}
    THEN <<[kind |-> kind, k |-> 1, amount_ars |-> Zero, status |-> status]>>
    ELSE <<>>

CloseRespond ==
    /\ close_artifact' = "response"
    /\ close_pc' = "exited"
    /\ close_exit' = [kind |-> "ok", code |-> 0, message |-> "response"]

\* lines 345-422: the invoices found, the artifact file and the response
CloseFinish ==
    /\ close_pc = "finish"
    /\ \/ \* no invoice file has an owner
          /\ CloseRespond
          /\ UNCHANGED <<close_taken, close_writes>>
       \/ \* an invoice of the first person, with --skip-google
          /\ close_in.people >= 1
          /\ close_in.skip_google
          /\ CloseRespond
          /\ UNCHANGED <<close_taken, close_writes>>
       \/ \* an invoice of the first person: the upload, with or without
          \* DRIVE_UPLOAD_WEBHOOK_URL, then the invoice row
          /\ close_in.people >= 1
          /\ ~close_in.skip_google
          /\ \E drive_webhook \in BOOLEAN :
                /\ close_taken' =
                      close_taken \o << <<"drive_upload", 1, InvoiceStatus(drive_webhook)>>,
                                        <<"sheets_invoice", 1,
                                          InvoiceStatus(close_in.sheets_webhook)>> >>
                /\ close_writes' =
                      close_writes \o InvoiceWrite("drive", InvoiceStatus(drive_webhook))
                          \o InvoiceWrite("invoice", InvoiceStatus(close_in.sheets_webhook))
          /\ CloseRespond
       \/ \* an invoice of the first person, and the upload raises
          /\ close_in.people >= 1
          /\ ~close_in.skip_google
          /\ ~close_in.dry_run
          /\ close_writes' = close_writes \o InvoiceWrite("drive", "raised")
          /\ CloseRaise("traceback", 1, "URLError")
          /\ UNCHANGED <<close_taken, close_artifact>>
    /\ UNCHANGED <<close_in, close_k, close_fx, close_person, close_amounts, close_blocked,
                   payroll_vars, ars_vars, fx_vars, row_vars>>

NextClose ==
    \/ CloseStart
    \/ CloseAmounts
    \/ CloseSheets
    \/ CloseYnab
    \/ CloseFinish

SpecClose == InitClose /\ [][NextClose]_vars

\* _resolve_amounts has ended for the person in progress
Resolved == close_amounts.kind # "none"

\* the historical amount of the person in progress exists and differs from
\* the fallback amount by more than 0.009
Differs ==
    /\ close_person.last.kind = "amount"
    /\ FGt(FAbs(FAdd(close_person.fallback, FNeg(close_person.last.v))), Fin(9, 1000))

\* C21: _resolve_amounts raises CloseError when the historical amount exists,
\* differs from the fallback amount by more than 0.009 and the change is
\* not confirmed; when the amounts agree, no historical amount exists, or
\* the change is confirmed, it returns the amounts without an error.
C21_AmountChangeGate ==
    Resolved =>
        IF Differs /\ ~close_in.confirm_amount_change
        THEN close_amounts.kind = "CloseError"
        ELSE close_amounts.kind = "amounts"

\* the debt rows and the YNAB transactions sent so far, in order
PersonWrites == SelectSeq(close_writes, LAMBDA w : w.kind \in {"sheets", "ynab"})

\* C30: the people are processed in the configured order and the gate of a
\* person comes before the requests sent for that person; when the gate
\* raises CloseError for the person at position k, the requests already sent
\* for the persons before k stand, one per sheet and per YNAB account the
\* flags and the environment allow, none is sent for k or later, and no
\* artifact file is written.
C30_CloseNotAtomic ==
    /\ \A i \in 1..Len(PersonWrites) :
          /\ PersonWrites[i].k <= close_k
          /\ \A j \in 1..Len(PersonWrites) : i < j => PersonWrites[i].k <= PersonWrites[j].k
    /\ close_pc = "amounts" => \A i \in 1..Len(close_writes) : close_writes[i].k < close_k
    /\ close_pc \in {"sheets", "ynab"} =>
          /\ close_amounts.kind = "amounts"
          /\ close_amounts.changed => close_in.confirm_amount_change
    /\ (close_exit.kind = "CloseError" /\ close_exit.message = "amount changed") =>
          /\ close_pc = "exited"
          /\ close_artifact = "none"
          /\ \A i \in 1..Len(close_writes) : close_writes[i].k < close_k
          /\ \A j \in 1..(close_k - 1) :
                /\ Cardinality({i \in 1..Len(close_writes) :
                                   /\ close_writes[i].k = j
                                   /\ close_writes[i].kind = "sheets"
                                   /\ close_writes[i].status \in {"webhook", "ok"}})
                      = IF ~close_in.skip_google /\ ~close_in.dry_run THEN 1 ELSE 0
                /\ Cardinality({i \in 1..Len(close_writes) :
                                   /\ close_writes[i].k = j
                                   /\ close_writes[i].kind = "ynab"})
                      = IF ~close_in.skip_ynab /\ ~close_in.dry_run /\ close_in.token
                        THEN 1 ELSE 0

\* the gate stops the run at the second person after a sheet row and a YNAB
\* transaction were sent for the first
C30_Witness ==
    /\ close_exit.kind = "CloseError"
    /\ close_exit.message = "amount changed"
    /\ close_k = 2
    /\ Len(close_writes) = 2
    /\ close_writes[1].kind = "sheets"
    /\ close_writes[2].kind = "ynab"
    /\ close_artifact = "none"
====
